---- MODULE Spec2Model ----
(***************************************************************************)
(* Course-analysis engine of race-strategy: GPSParser (track ingestion,    *)
(* gradients, validation, climb and technical-section detection),         *)
(* DifficultyCalculator (overall rating and sub-scores) and DataValidator  *)
(* (the eight checks and the quality report).                              *)
(*                                                                         *)
(* Python floats are modelled as exact rationals [n, d] (d > 0, lowest     *)
(* terms). Python lists are 1-based sequences here, so index k of the      *)
(* model is index k-1 of the source.                                       *)
(***************************************************************************)
EXTENDS Integers, Sequences, FiniteSets, TLC

VARIABLES
    ctor,           \* the arguments the GPSParser was constructed with
    parser,         \* the GPSParser instance (self)
    track_points,   \* the raw track handed to parse_gpx_file
    result,         \* what the last parse_gpx_file returned
    gps_points,     \* _detect_climbs: the point list being scanned
    i,              \* _detect_climbs: loop index (next point to process)
    current_climb,  \* _detect_climbs: the open candidate, or None
    climbs,         \* _detect_climbs: the climbs emitted so far
    course,         \* the CourseProfile handed to calculate_difficulty
    metrics,        \* what calculate_difficulty returned
    course2,        \* the second CourseProfile handed to compare_courses
    comparison,     \* what compare_courses returned
    gpx,            \* the GPX file behind the path handed to parse_gpx_file
    report,         \* what validate_course returned
    valid,          \* what report.is_valid_for_strategy was last read as
    strategy,       \* what generate_strategy returned
    detected_sections   \* what _identify_technical_sections returned

parserVars == <<ctor, parser, track_points, result>>
climbVars == <<gps_points, i, current_climb, climbs>>
calcVars == <<course, metrics, course2, comparison>>
fileVars == <<gpx>>
validatorVars == <<report, valid>>
pipelineVars == <<strategy>>
sectionVars == <<detected_sections>>
vars == <<ctor, parser, track_points, result, gps_points, i, current_climb, climbs,
          course, metrics, course2, comparison, gpx, report, valid, strategy,
          detected_sections>>

\* ------------------------------------------------------------ bounds
MaxPts == 4
MaxTrack == 3
MaxClimbs == 2

\* ------------------------------------------------------------ Optional
None == <<>>
Some(x) == <<x>>

\* a list built element by element, as the evaluated sequence of its values
AsList(f) == f \o <<>>

\* ------------------------------------------------------------ rationals
Abs(x) == IF x < 0 THEN -x ELSE x

RECURSIVE GCD(_, _)
GCD(a, b) == IF b = 0 THEN a ELSE GCD(b, a % b)

LCM(a, b) == (a \div GCD(a, b)) * b

\* n/d in lowest terms, d > 0
R(n, d) ==
    LET s == IF d < 0 THEN -1 ELSE 1
        g == GCD(Abs(n), Abs(d))
    IN [n |-> (s * n) \div g, d |-> (s * d) \div g]

Zero == [n |-> 0, d |-> 1]
One == [n |-> 1, d |-> 1]
RInt(k) == [n |-> k, d |-> 1]

\* the arithmetic takes its operands as values: x and y are a and b, evaluated
\* once, before the operation
RAdd(a, b) ==
    CHOOSE sum \in {R(x.n * (LCM(x.d, y.d) \div x.d) + y.n * (LCM(x.d, y.d) \div y.d),
                      LCM(x.d, y.d)) : x \in {a}, y \in {b}} : TRUE
RNeg(a) == CHOOSE negated \in {[n |-> -x.n, d |-> x.d] : x \in {a}} : TRUE
RSub(a, b) == RAdd(a, RNeg(b))
RMul(a, b) ==
    CHOOSE product \in {R((x.n \div GCD(Abs(x.n), y.d)) * (y.n \div GCD(Abs(y.n), x.d)),
                          (x.d \div GCD(Abs(y.n), x.d)) * (y.d \div GCD(Abs(x.n), y.d))) :
                            x \in {a}, y \in {b}} : TRUE
RDiv(a, b) == CHOOSE quotient \in {RMul(a, R(y.d, y.n)) : y \in {b}} : TRUE
RLe(a, b) ==
    \E x \in {a}, y \in {b} :
        x.n * (LCM(x.d, y.d) \div x.d) <= y.n * (LCM(x.d, y.d) \div y.d)
RLt(a, b) ==
    \E x \in {a}, y \in {b} :
        x.n * (LCM(x.d, y.d) \div x.d) < y.n * (LCM(x.d, y.d) \div y.d)
RGe(a, b) == RLe(b, a)
RGt(a, b) == RLt(b, a)
RMin(a, b) == CHOOSE least \in {IF RLe(x, y) THEN x ELSE y : x \in {a}, y \in {b}} : TRUE
RMax(a, b) == CHOOSE greatest \in {IF RGe(x, y) THEN x ELSE y : x \in {a}, y \in {b}} : TRUE
RAbs(a) == CHOOSE magnitude \in {[n |-> Abs(x.n), d |-> x.d] : x \in {a}} : TRUE

RECURSIVE RSum(_)
RSum(s) == IF s = <<>> THEN Zero ELSE RAdd(s[1], RSum(Tail(s)))

\* max() of a non-empty list
RECURSIVE RMaxSeq(_)
RMaxSeq(s) == IF Len(s) = 1 THEN s[1] ELSE RMax(s[1], RMaxSeq(Tail(s)))

\* int(x) on a float: truncation toward zero
RTrunc(a) == IF a.n >= 0 THEN a.n \div a.d ELSE -((-a.n) \div a.d)

\* ------------------------------------------------------------ GPSParserConfig
\* GPSParserConfig(): the dataclass defaults
GPSParserConfig ==
    [min_climb_grade |-> R(3, 1),
     min_climb_distance |-> R(1, 2),
     descent_threshold |-> R(-8, 1),
     min_descent_length |-> R(1, 5),
     smoothing_window |-> 5,
     quality_penalty_factor |-> R(50, 1),
     descent_continuation_threshold |-> R(-3, 1),
     min_latitude |-> R(-90, 1),
     max_latitude |-> R(90, 1),
     min_longitude |-> R(-180, 1),
     max_longitude |-> R(180, 1),
     min_elevation_ft |-> R(-1000, 1),
     max_elevation_ft |-> R(30000, 1),
     max_distance_jump_miles |-> R(1, 1),
     coordinate_validation_penalty |-> R(20, 1)]

\* ActivityConfig.get_cycling_config / get_running_config / get_mixed_config
get_cycling_config ==
    [activity_type |-> "cycling", min_climb_grade |-> R(3, 1),
     min_climb_distance |-> R(1, 2), avg_speed_threshold |-> R(8, 1),
     technical_descent_threshold |-> R(-8, 1)]
get_running_config ==
    [activity_type |-> "running", min_climb_grade |-> R(2, 1),
     min_climb_distance |-> R(1, 5), avg_speed_threshold |-> R(8, 1),
     technical_descent_threshold |-> R(-5, 1)]
get_mixed_config ==
    [activity_type |-> "mixed", min_climb_grade |-> R(5, 2),
     min_climb_distance |-> R(3, 10), avg_speed_threshold |-> R(8, 1),
     technical_descent_threshold |-> R(-13, 2)]

\* GPSParser.__init__(config, activity_config, activity_type, min_climb_grade,
\* min_climb_distance); an argument left out is None
GPSParser(config_, activity_config, activity_type, min_climb_grade, min_climb_distance) ==
    LET config ==
          IF config_ # None THEN config_[1]
          ELSE [GPSParserConfig EXCEPT
                  !.min_climb_grade =
                      IF min_climb_grade # None THEN min_climb_grade[1] ELSE @,
                  !.min_climb_distance =
                      IF min_climb_distance # None THEN min_climb_distance[1] ELSE @]
    IN [config |-> config,
        min_climb_grade |-> config.min_climb_grade,
        min_climb_distance |-> config.min_climb_distance,
        activity_config |-> activity_config,
        manual_activity_type |-> activity_type]

\* ------------------------------------------------------------ texts
\* A text is a list of tokens: words, symbols and numbers.
Word(s) == [t |-> "word", s |-> s, neg |-> FALSE, whole |-> 0, frac |-> None]
Sym(s) == [t |-> "sym", s |-> s, neg |-> FALSE, whole |-> 0, frac |-> None]
Num(neg, whole, frac) == [t |-> "num", s |-> "", neg |-> neg, whole |-> whole, frac |-> frac]

\* f"{x:.1f}": the decimal text of x rounded to one decimal (ties to even),
\* a number token with its sign, integer part and tenths digit
FormatOneDecimal(x) ==
    LET a == RAbs(x)
        q == (a.n * 10) \div a.d
        r == (a.n * 10) % a.d
        tenths == IF 2 * r > a.d THEN q + 1
                  ELSE IF 2 * r < a.d THEN q
                  ELSE IF q % 2 = 0 THEN q ELSE q + 1
    IN Num(x.n < 0, tenths \div 10, Some(tenths % 10))

\* ------------------------------------------------------------ _detect_climbs
GPSPoint(lat, lon, elevation_ft, distance_miles, gradient_percent) ==
    [latitude |-> lat, longitude |-> lon, elevation_ft |-> elevation_ft,
     distance_miles |-> distance_miles, gradient_percent |-> gradient_percent]

\* The ClimbSegment built when a candidate closes at point k; gps_points is
\* kept as the index range [start_idx, end_idx] of the slice.
ClimbSegment(cc, pts, k) ==
    [name |-> <<Word("climb"), Word("at"), Word("mile"), FormatOneDecimal(cc.start_mile)>>,
     start_mile |-> cc.start_mile,
     length_miles |-> RSub(pts[k].distance_miles, cc.start_mile),
     avg_grade |-> RDiv(RSum(cc.grades), RInt(Len(cc.grades))),
     max_grade |-> cc.max_grade,
     elevation_gain_ft |->
         RTrunc(RMax(Zero, RSub(pts[k].elevation_ft, cc.start_elevation))),
     start_coords |-> <<pts[cc.start_idx].latitude, pts[cc.start_idx].longitude>>,
     end_coords |-> <<pts[k].latitude, pts[k].longitude>>,
     start_idx |-> cc.start_idx,
     end_idx |-> k]

\* if climb_length >= self.min_climb_distance
climb_accepted_mut(climb_length, self) == TRUE
climb_accepted(climb_length, self) == RGe(climb_length, self.min_climb_distance)

\* current_climb["max_grade"] = max(current_climb["max_grade"], grade)
running_max_mut(max_grade, g) == max_grade
running_max(max_grade, g) == RMax(max_grade, g)

\* current_climb = None, the last statement of the "End of climb" branch
closed_climb_mut(cc) == cc
closed_climb(cc) == None

\* One iteration of the for loop of _detect_climbs, on point k, from loop
\* state st = [current_climb, climbs], with the thresholds of self.
detect_climbs_iteration(st, pts, k, self) ==
    LET point == pts[k]
        cc == st.current_climb
    IN IF point.gradient_percent = None THEN st
       ELSE LET g == point.gradient_percent[1] IN
            IF RGe(g, self.min_climb_grade) /\ cc = None
            THEN [st EXCEPT !.current_climb =
                     Some([start_idx |-> k,
                           start_mile |-> point.distance_miles,
                           start_elevation |-> point.elevation_ft,
                           max_grade |-> g,
                           grades |-> <<g>>])]
            ELSE IF cc # None /\ RGe(g, Zero)
            THEN [st EXCEPT !.current_climb =
                     Some([cc[1] EXCEPT !.max_grade = running_max(cc[1].max_grade, g),
                                        !.grades = Append(cc[1].grades, g)])]
            ELSE IF cc # None /\ (RLt(g, Zero) \/ k = Len(pts))
            THEN LET climb_length == RSub(point.distance_miles, cc[1].start_mile)
                 IN [current_climb |-> closed_climb(cc),
                     climbs |-> IF climb_accepted(climb_length, self)
                                THEN Append(st.climbs, ClimbSegment(cc[1], pts, k))
                                ELSE st.climbs]
            ELSE st

RECURSIVE detect_climbs_from(_, _, _, _)
detect_climbs_from(st, pts, k, self) ==
    IF k > Len(pts) THEN st.climbs
    ELSE detect_climbs_from(detect_climbs_iteration(st, pts, k, self), pts, k + 1, self)

\* _detect_climbs as a whole: the climbs list it returns
_detect_climbs(pts, self) ==
    detect_climbs_from([current_climb |-> None, climbs |-> <<>>], pts, 1, self)

\* ------------------------------------------------------------ _process_track_points
\* A raw track point: latitude, longitude (degrees), elevation (metres) or None
TrackPoint(lat, lon, ele) == [latitude |-> lat, longitude |-> lon, elevation |-> ele]

\* return min_val <= value <= max_val
_is_coordinate_valid(value, min_val, max_val) == RLe(min_val, value) /\ RLe(value, max_val)

\* geopy's geodesic(a, b).miles, an external library: abstracted to 70 miles
\* per degree of latitude plus 50 miles per degree of longitude; like the
\* library it is >= 0, symmetric and 0 between equal coordinates.
geodesic_miles(a, b) ==
    RAdd(RMul(R(70, 1), RAbs(RSub(a.latitude, b.latitude))),
         RMul(R(50, 1), RAbs(RSub(a.longitude, b.longitude))))

\* geopy raises ValueError for a latitude outside [-90, 90]
geodesic_raises(a, b) ==
    \/ RGt(RAbs(a.latitude), R(90, 1))
    \/ RGt(RAbs(b.latitude), R(90, 1))

\* total_distance += 0.001  # Small default distance
fallback_distance_mut == R(-1, 1000)
fallback_distance == R(1, 1000)

\* the four _is_coordinate_valid tests on the two endpoints of a step
step_coordinates_valid_mut(prev_point, point, self) ==
    /\ _is_coordinate_valid(prev_point.latitude, self.config.min_latitude,
                            self.config.max_latitude)
    /\ _is_coordinate_valid(point.latitude, self.config.min_latitude,
                            self.config.max_latitude)
step_coordinates_valid(prev_point, point, self) ==
    /\ _is_coordinate_valid(prev_point.latitude, self.config.min_latitude,
                            self.config.max_latitude)
    /\ _is_coordinate_valid(prev_point.longitude, self.config.min_longitude,
                            self.config.max_longitude)
    /\ _is_coordinate_valid(point.latitude, self.config.min_latitude,
                            self.config.max_latitude)
    /\ _is_coordinate_valid(point.longitude, self.config.min_longitude,
                            self.config.max_longitude)

\* what one step adds to total_distance
step_distance(prev_point, point, self) ==
    IF step_coordinates_valid(prev_point, point, self)
    THEN IF geodesic_raises(prev_point, point)
         THEN fallback_distance
         ELSE geodesic_miles(prev_point, point)
    ELSE fallback_distance

\* total_distance after the loop body ran on point k
RECURSIVE total_distance_at(_, _, _)
total_distance_at(track, k, self) ==
    IF k = 1 THEN Zero
    ELSE RAdd(total_distance_at(track, k - 1, self),
              step_distance(track[k - 1], track[k], self))

\* elevation_ft = point.elevation * 3.28084, or 0.0 when it is missing
elevation_ft_of(point) ==
    IF point.elevation = None THEN Zero
    ELSE RMul(point.elevation[1], R(328084, 100000))

\* _smooth_data: centred moving average, truncated at the edges
_smooth_data(data, window) ==
    IF Len(data) < window THEN data
    ELSE AsList([k \in 1..Len(data) |->
            LET start_idx == IF k - 1 - (window \div 2) > 0
                             THEN k - (window \div 2) ELSE 1
                end_idx == IF k + (window \div 2) < Len(data)
                           THEN k + (window \div 2) ELSE Len(data)
                window_data == SubSeq(data, start_idx, end_idx)
            IN RDiv(RSum(window_data), RInt(Len(window_data)))])

\* gps_points[i].gradient_percent = gradient: the point after the assignment.
\* The smoothed elevation is a local value of the pass and is not stored.
with_gradient_mut(point, elevation, gradient) == [point EXCEPT !.gradient_percent = Some(gradient), !.elevation_ft = elevation]
with_gradient(point, elevation, gradient) == [point EXCEPT !.gradient_percent = Some(gradient)]

\* _calculate_gradients(gps_points, smoothing_window): sets gradient_percent
\* of the points with distance_diff > 0; smoothing_window is None when the
\* caller leaves it out
_calculate_gradients(pts, smoothing_window, self) ==
    IF Len(pts) < 2 THEN pts
    ELSE LET window == IF smoothing_window = None
                       THEN self.config.smoothing_window ELSE smoothing_window[1]
             raw == AsList([k \in 1..Len(pts) |-> pts[k].elevation_ft])
             elevations == IF window > 1 THEN _smooth_data(raw, window) ELSE raw
         IN AsList([k \in 1..Len(pts) |->
               IF k = 1 THEN pts[k]
               ELSE LET distance_diff == RSub(pts[k].distance_miles,
                                              pts[k - 1].distance_miles)
                        elevation_diff == RSub(elevations[k], elevations[k - 1])
                    IN IF RGt(distance_diff, Zero)
                       THEN with_gradient(pts[k], elevations[k],
                               RMul(RDiv(elevation_diff,
                                         RMul(distance_diff, R(5280, 1))),
                                    R(100, 1)))
                       ELSE pts[k]])

\* _process_track_points: one GPSPoint per track point, then the gradients
_process_track_points(track, self) ==
    _calculate_gradients(
        AsList([k \in 1..Len(track) |->
            GPSPoint(track[k].latitude, track[k].longitude,
                     elevation_ft_of(track[k]),
                     total_distance_at(track, k, self), None)]),
        None, self)

\* ------------------------------------------------------------ validation and metadata
\* _validate_single_point: the three error flags of one point
_validate_single_point(gps_point, track_point, self) ==
    LET gps_loss == /\ RLt(RAbs(gps_point.latitude), R(1, 10000))
                    /\ RLt(RAbs(gps_point.longitude), R(1, 10000))
    IN [invalid_latitude |->
            IF \/ ~_is_coordinate_valid(gps_point.latitude,
                       self.config.min_latitude, self.config.max_latitude)
               \/ gps_loss
            THEN 1 ELSE 0,
        invalid_longitude |->
            IF \/ ~_is_coordinate_valid(gps_point.longitude,
                       self.config.min_longitude, self.config.max_longitude)
               \/ gps_loss
            THEN 1 ELSE 0,
        invalid_elevation |->
            IF /\ track_point.elevation # None
               /\ ~_is_coordinate_valid(gps_point.elevation_ft,
                       self.config.min_elevation_ft, self.config.max_elevation_ft)
            THEN 1 ELSE 0]

\* _validate_distance_jumps: steps longer than max_distance_jump_miles
_validate_distance_jumps_mut(pts, self) ==
    Cardinality({k \in 2..Len(pts) :
        RGe(RSub(pts[k].distance_miles, pts[k - 1].distance_miles),
            self.config.max_distance_jump_miles)})

_validate_distance_jumps(pts, self) ==
    LET Jump(k) == k > 1 /\ RGt(RSub(pts[k].distance_miles, pts[k - 1].distance_miles),
                                self.config.max_distance_jump_miles)
    IN Cardinality({k \in 1..Len(pts) : Jump(k)})

\* _validate_coordinates: the validation counters
_validate_coordinates(pts, track, self) ==
    LET n == IF Len(pts) < Len(track) THEN Len(pts) ELSE Len(track)
        BadLat(k) == _validate_single_point(pts[k], track[k], self).invalid_latitude = 1
        BadLon(k) == _validate_single_point(pts[k], track[k], self).invalid_longitude = 1
        BadEle(k) == _validate_single_point(pts[k], track[k], self).invalid_elevation = 1
        lat == Cardinality({k \in 1..n : BadLat(k)})
        lon == Cardinality({k \in 1..n : BadLon(k)})
        ele == Cardinality({k \in 1..n : BadEle(k)})
        jumps == _validate_distance_jumps(pts, self)
    IN [invalid_latitude_points |-> lat,
        invalid_longitude_points |-> lon,
        invalid_elevation_points |-> ele,
        large_distance_jumps |-> jumps,
        total_validation_errors |-> lat + lon + ele + jumps]

\* quality_score -= validation_ratio * coordinate_validation_penalty
validation_penalty_mut(score, validation_ratio, self) ==
    RAdd(score, RMul(validation_ratio, self.config.coordinate_validation_penalty))
validation_penalty(score, validation_ratio, self) ==
    RSub(score, RMul(validation_ratio, self.config.coordinate_validation_penalty))

\* quality_score -= missing_ratio * self.config.quality_penalty_factor
missing_penalty_mut(score, missing_ratio, self) == RSub(score, RMul(missing_ratio, GPSParserConfig.quality_penalty_factor))
missing_penalty(score, missing_ratio, self) == RSub(score, RMul(missing_ratio, self.config.quality_penalty_factor))

\* the data quality score of _generate_metadata
quality_score_of(missing_elevation, validation_results, track, self) ==
    IF track = <<>> THEN R(100, 1)
    ELSE LET missing_ratio == R(missing_elevation, Len(track))
             after_missing == missing_penalty(R(100, 1), missing_ratio, self)
             after_validation ==
                 IF validation_results.total_validation_errors > 0
                 THEN validation_penalty(after_missing,
                          R(validation_results.total_validation_errors, Len(track)),
                          self)
                 ELSE after_missing
         IN RMax(Zero, after_validation)

\* GPSMetadata(...) as _generate_metadata fills it (source_file, parsed_at
\* and bounds left out)
GPSMetadata(track, missing_elevation, validation_results, self) ==
    [total_points |-> Len(track),
     missing_elevation_points |-> missing_elevation,
     data_quality_score |->
         quality_score_of(missing_elevation, validation_results, track, self),
     smoothed |-> TRUE,
     invalid_latitude_points |-> validation_results.invalid_latitude_points,
     invalid_longitude_points |-> validation_results.invalid_longitude_points,
     invalid_elevation_points |-> validation_results.invalid_elevation_points,
     large_distance_jumps |-> validation_results.large_distance_jumps,
     total_validation_errors |-> validation_results.total_validation_errors]

\* _generate_metadata
_generate_metadata(pts, track, self) ==
    GPSMetadata(track,
                Cardinality({k \in 1..Len(track) : track[k].elevation = None}),
                _validate_coordinates(pts, track, self),
                self)

\* ------------------------------------------------------------ activity detection
\* _detect_activity_type: <<activity_type, confidence>>
_detect_activity_type(pts) ==
    IF Len(pts) < 2 THEN <<"cycling", Zero>>
    ELSE LET total_distance == pts[Len(pts)].distance_miles
             estimated_time_hours == R(Len(pts), 3600)
             avg_speed_mph == RDiv(total_distance, estimated_time_hours)
             distance_factor == IF RGt(total_distance, R(50, 1)) THEN R(3, 10)
                                ELSE IF RGt(total_distance, R(20, 1)) THEN Zero
                                ELSE R(-2, 10)
             classified ==
                 IF RGe(avg_speed_mph, R(15, 1))
                 THEN <<"cycling",
                        RMin(R(9, 10),
                             RAdd(R(1, 2), RMul(RSub(avg_speed_mph, R(15, 1)), R(5, 100))))>>
                 ELSE IF RGe(avg_speed_mph, R(12, 1)) THEN <<"cycling", R(7, 10)>>
                 ELSE IF RLe(avg_speed_mph, R(6, 1))
                 THEN <<"running",
                        RMin(R(8, 10),
                             RAdd(R(4, 10), RMul(RSub(R(8, 1), avg_speed_mph), R(1, 10))))>>
                 ELSE IF RLe(avg_speed_mph, R(8, 1)) THEN <<"running", R(6, 10)>>
                 ELSE <<"cycling", R(3, 10)>>
             final_confidence ==
                 RMax(R(1, 10), RMin(R(95, 100), RAdd(classified[2], distance_factor)))
         IN <<classified[1], final_confidence>>

\* _get_activity_specific_config
_get_activity_specific_config(activity_type) ==
    IF activity_type = "running" THEN get_running_config
    ELSE IF activity_type = "mixed" THEN get_mixed_config
    ELSE get_cycling_config

\* _calculate_total_elevation_gain: the sum of the positive elevation steps
RECURSIVE total_gain_upto(_, _)
total_gain_upto(pts, k) ==
    IF k <= 1 THEN Zero
    ELSE LET elevation_diff == RSub(pts[k].elevation_ft, pts[k - 1].elevation_ft)
         IN IF RGt(elevation_diff, Zero)
            THEN RAdd(total_gain_upto(pts, k - 1), elevation_diff)
            ELSE total_gain_upto(pts, k - 1)
_calculate_total_elevation_gain(pts) == total_gain_upto(pts, Len(pts))

\* ------------------------------------------------------------ technical sections
\* f"Steep descent at mile {start_mile:.1f} ({descent_length:.1f}mi, {grade:.1f}% grade)"
descent_text(start_mile, descent_length, grade) ==
    <<Word("steep"), Word("descent"), Word("at"), Word("mile"),
      FormatOneDecimal(start_mile), Sym("("), FormatOneDecimal(descent_length),
      Word("mi"), Sym(","), FormatOneDecimal(grade), Sym("%"), Word("grade"),
      Sym(")")>>

\* Python truthiness of an Optional[float]: None and 0.0 are false
Truthy(gradient_percent) == gradient_percent # None /\ gradient_percent[1].n # 0

\* the while loop: the first index from j on where the descent stops
RECURSIVE descent_end(_, _, _)
descent_end(pts, j, self) ==
    IF /\ j <= Len(pts)
       /\ Truthy(pts[j].gradient_percent)
       /\ RLe(pts[j].gradient_percent[1], self.config.descent_continuation_threshold)
    THEN descent_end(pts, j + 1, self)
    ELSE j

\* the descriptor appended for a descent starting at point k, if any
technical_section_at(pts, k, descent_threshold, self) ==
    IF Truthy(pts[k].gradient_percent)
       /\ RLe(pts[k].gradient_percent[1], descent_threshold)
    THEN LET start_mile == pts[k].distance_miles
             j == descent_end(pts, k + 1, self)
             end_mile == IF j > k + 1 THEN pts[j - 1].distance_miles ELSE start_mile
             descent_length == RSub(end_mile, start_mile)
         IN IF RGe(descent_length, self.config.min_descent_length)
            THEN <<descent_text(start_mile, descent_length,
                                pts[k].gradient_percent[1])>>
            ELSE <<>>
    ELSE <<>>

RECURSIVE technical_sections_from(_, _, _, _)
technical_sections_from(pts, k, descent_threshold, self) ==
    IF k > Len(pts) THEN <<>>
    ELSE technical_section_at(pts, k, descent_threshold, self)
         \o technical_sections_from(pts, k + 1, descent_threshold, self)

\* _identify_technical_sections
_identify_technical_sections(pts, activity_config, self) ==
    technical_sections_from(pts, 1,
        IF activity_config # None
        THEN activity_config[1].technical_descent_threshold
        ELSE self.config.descent_threshold,
        self)

\* ------------------------------------------------------------ parse_gpx_file
\* if not self.activity_config: self.activity_config = ...
cached_activity_config(self, activity_type) ==
    IF self.activity_config = None
    THEN Some(_get_activity_specific_config(activity_type))
    ELSE self.activity_config

\* the CourseProfile that parse_gpx_file returns; activity_type and
\* activity_confidence are the keywords the call passes, fields of the
\* CourseProfile that the tests of parse_gpx_file read
ParsedProfile(pts, activity_type, activity_confidence, total_elevation_gain, key_climbs, technical_sections, metadata) ==
    [bike_distance_miles |->
         IF activity_type \in {"cycling", "mixed"}
         THEN pts[Len(pts)].distance_miles ELSE Zero,
     bike_elevation_gain_ft |->
         IF activity_type \in {"cycling", "mixed"}
         THEN RTrunc(total_elevation_gain) ELSE 0,
     swim_distance_miles |-> Zero,
     run_distance_miles |->
         IF activity_type \in {"running", "mixed"}
         THEN pts[Len(pts)].distance_miles ELSE Zero,
     run_elevation_gain_ft |->
         IF activity_type \in {"running", "mixed"}
         THEN RTrunc(total_elevation_gain) ELSE 0,
     activity_type |-> activity_type,
     activity_confidence |-> activity_confidence,
     key_climbs |-> key_climbs,
     technical_sections |-> technical_sections,
     altitude_ft |-> 0,
     gps_metadata |-> metadata,
     elevation_profile |-> pts,
     start_coords |-> <<pts[1].latitude, pts[1].longitude>>,
     finish_coords |-> <<pts[Len(pts)].latitude, pts[Len(pts)].longitude>>]

\* self while the climbs are detected: the activity configuration is stored
\* and its climb thresholds replace the instance's
with_activity_thresholds(self, activity_config) ==
    [self EXCEPT !.activity_config = activity_config,
                 !.min_climb_grade = activity_config[1].min_climb_grade,
                 !.min_climb_distance = activity_config[1].min_climb_distance]

\* self.min_climb_grade, self.min_climb_distance = the original values
restore_thresholds(during, self) ==
    [during EXCEPT !.min_climb_grade = self.min_climb_grade,
                   !.min_climb_distance = self.min_climb_distance]

\* parse_gpx_file from the point where the activity configuration is known
parse_with_config(self, track, pts, activity_type, activity_confidence, activity_config) ==
    [raised |-> None,
     profile |-> Some(ParsedProfile(pts, activity_type, activity_confidence,
         _calculate_total_elevation_gain(pts),
         _detect_climbs(pts, with_activity_thresholds(self, activity_config)),
         _identify_technical_sections(pts, activity_config,
             restore_thresholds(with_activity_thresholds(self, activity_config), self)),
         _generate_metadata(pts, track,
             with_activity_thresholds(self, activity_config)))),
     self |-> restore_thresholds(with_activity_thresholds(self, activity_config), self)]

\* parse_gpx_file from the point where the activity type is known:
\* detected = <<activity_type, activity_confidence>>
parse_with_activity(self, track, pts, detected) ==
    parse_with_config(self, track, pts, detected[1], detected[2],
                      cached_activity_config(self, detected[1]))

\* parse_gpx_file from the point where the GPS points are built
parse_points(self, track, pts) ==
    parse_with_activity(self, track, pts,
        IF self.manual_activity_type # None
        THEN <<self.manual_activity_type[1], One>>
        ELSE _detect_activity_type(pts))

\* an exception instance: its class and the text it was built with
FileNotFoundError(message) == [type |-> "FileNotFoundError", message |-> message]
ValueError(message) == [type |-> "ValueError", message |-> message]

\* parse_gpx_file on a file whose track points are `track`:
\* [raised, profile, self] -- the exception raised (or None), the
\* CourseProfile returned (or None) and the parser as the call leaves it
parse_gpx_file(self, track) ==
    IF track = <<>>
    THEN [raised |-> Some(ValueError("No track points found in GPX file")),
          profile |-> None, self |-> self]
    ELSE parse_points(self, track, _process_track_points(track, self))

\* A GPX file on disk: found says whether the path exists, wellformed whether
\* gpxpy.parse accepts its text, tracks is gpx.tracks as a list of tracks, each
\* a list of segments, each a list of track points.
GPXFile(found, wellformed, tracks) ==
    [found |-> found, wellformed |-> wellformed, tracks |-> tracks]

\* with open(gpx_file_path) as gpx_file: gpx = gpxpy.parse(gpx_file), and the
\* two except clauses around it; the f-string's {e} detail is left out of the text
open_and_parse(file) ==
    IF ~file.found
    THEN [raised |-> Some(FileNotFoundError("GPX file not found")), gpx |-> None]
    ELSE IF ~file.wellformed
    THEN [raised |-> Some(ValueError("Invalid GPX file format")), gpx |-> None]
    ELSE [raised |-> None, gpx |-> Some(file)]

no_tracks_mut(g) == FALSE

\* if not gpx.tracks
no_tracks(g) == g.tracks = <<>>

RECURSIVE extend_segments(_, _)
\* for segment in track.segments: track_points.extend(segment.points)
extend_segments(track_points_, segments) ==
    IF segments = <<>> THEN track_points_
    ELSE extend_segments(track_points_ \o Head(segments), Tail(segments))

RECURSIVE extend_tracks(_, _)
\* for track in gpx.tracks: ...
extend_tracks(track_points_, tracks) ==
    IF tracks = <<>> THEN track_points_
    ELSE extend_tracks(extend_segments(track_points_, Head(tracks)), Tail(tracks))

\* parse_gpx_file from the path on: read the file, reject a document without
\* tracks, collect the points of every segment of every track, then go on
parse_gpx_path(self, file) ==
    IF open_and_parse(file).raised # None
    THEN [raised |-> open_and_parse(file).raised, profile |-> None, self |-> self]
    ELSE IF no_tracks(file)
    THEN [raised |-> Some(ValueError("No tracks found in GPX file")),
          profile |-> None, self |-> self]
    ELSE parse_gpx_file(self, extend_tracks(<<>>, file.tracks))

\* ------------------------------------------------------------ DifficultyCalculator
\* floor of the square root of a natural number below 2^31: its leading
\* base-216 digit, then the root itself
isqrt_digit(n) ==
    CHOOSE a \in 0..214 : /\ (a * 216) * (a * 216) <= n
                          /\ a = 214 \/ ((a + 1) * 216) * ((a + 1) * 216) > n
isqrt_from(n, lo) ==
    CHOOSE r \in lo..(IF lo + 215 > 46340 THEN 46340 ELSE lo + 215) :
        /\ r * r <= n
        /\ r = 46340 \/ (r + 1) * (r + 1) > n
isqrt(n) == isqrt_from(n, isqrt_digit(n) * 216)

\* math.sqrt, to two decimals (rounded down)
RSqrt(x) == R(isqrt((x.n * 10000) \div x.d), 100)

\* statistics.mean
mean(data) == RDiv(RSum(data), RInt(Len(data)))

\* statistics.stdev: the sample standard deviation
stdev(data) ==
    LET m == mean(data)
        squares == AsList([k \in 1..Len(data) |->
                      RMul(RSub(data[k], m), RSub(data[k], m))])
    IN RSqrt(RDiv(RSum(squares), RInt(Len(data) - 1)))

\* round(x, 1): to one decimal, ties to even
round1(x) ==
    LET a == RAbs(x)
        q == (a.n * 10) \div a.d
        r == (a.n * 10) % a.d
        tenths == IF 2 * r > a.d THEN q + 1
                  ELSE IF 2 * r < a.d THEN q
                  ELSE IF q % 2 = 0 THEN q ELSE q + 1
    IN R(IF x.n < 0 THEN -tenths ELSE tenths, 10)

\* list.sort() on numbers: ascending insertion sort
RECURSIVE sorted(_)
sorted(s) ==
    IF s = <<>> THEN <<>>
    ELSE LET rest == sorted(Tail(s))
             below == SelectSeq(rest, LAMBDA x : RLt(x, s[1]))
             above == SelectSeq(rest, LAMBDA x : ~RLt(x, s[1]))
         IN below \o <<s[1]>> \o above

\* _calculate_elevation_intensity
_calculate_elevation_intensity(c) ==
    IF c.bike_distance_miles = Zero THEN Zero
    ELSE RDiv(RInt(c.bike_elevation_gain_ft), c.bike_distance_miles)

\* the gradients list of _analyze_gradient_distribution
RECURSIVE climb_gradients(_)
climb_gradients(key_climbs) ==
    IF key_climbs = <<>> THEN <<>>
    ELSE (IF RGt(key_climbs[1].max_grade, Zero)
          THEN <<key_climbs[1].avg_grade, key_climbs[1].max_grade>>
          ELSE <<key_climbs[1].avg_grade>>)
         \o climb_gradients(Tail(key_climbs))

RECURSIVE point_gradients(_, _)
point_gradients(profile, k) ==
    IF k > Len(profile) THEN <<>>
    ELSE (IF profile[k].gradient_percent # None
          THEN <<RAbs(profile[k].gradient_percent[1])>> ELSE <<>>)
         \o point_gradients(profile, k + 1)

\* _analyze_gradient_distribution: avg, max and variance (the distribution
\* percentages, which no caller reads, are left out)
_analyze_gradient_distribution(c) ==
    LET gradients == climb_gradients(c.key_climbs)
                     \o (IF Len(c.elevation_profile) > 1
                         THEN point_gradients(c.elevation_profile, 2) ELSE <<>>)
    IN IF gradients = <<>> THEN [avg |-> Zero, max |-> Zero, variance |-> Zero]
       ELSE [avg |-> mean(gradients),
             max |-> RMaxSeq(gradients),
             variance |-> IF Len(gradients) > 1 THEN stdev(gradients) ELSE Zero]

\* _analyze_climb_clustering (the caller has checked bike_distance_miles # 0
\* when there are two climbs or more: see calculate_difficulty)
clustering_score_mut(normalized_variance, length_factor) == RAdd(RMul(normalized_variance, R(6, 10)), RMul(length_factor, R(4, 1)))

\* min(1.0, (normalized_variance * 0.6) + (length_factor * 4))
clustering_score(normalized_variance, length_factor) ==
    RMin(One, RAdd(RMul(normalized_variance, R(6, 10)),
                   RMul(length_factor, R(4, 1))))

_analyze_climb_clustering(c) ==
    IF c.key_climbs = <<>> THEN Zero
    ELSE LET climb_positions ==
                 sorted(AsList([k \in 1..Len(c.key_climbs) |-> c.key_climbs[k].start_mile]))
         IN IF Len(climb_positions) < 2 THEN Zero
            ELSE LET gaps == AsList([k \in 1..(Len(climb_positions) - 1) |->
                                RSub(climb_positions[k + 1], climb_positions[k])])
                     max_climb_length ==
                         RMaxSeq(AsList([k \in 1..Len(c.key_climbs) |->
                                    c.key_climbs[k].length_miles]))
                     gap_variance == IF Len(gaps) > 1 THEN stdev(gaps) ELSE Zero
                     avg_gap == mean(gaps)
                     normalized_variance == IF RGt(avg_gap, Zero)
                                            THEN RDiv(gap_variance, avg_gap) ELSE Zero
                     length_factor == RDiv(max_climb_length, c.bike_distance_miles)
                 IN clustering_score(normalized_variance, length_factor)

\* "kw" in section.lower(): the words of the vocabulary that contain kw
WordsContaining(kw) ==
    CASE kw = "descent" -> {"descent", "descents"}
      [] kw = "switchback" -> {"switchback", "switchbacks"}
      [] kw = "technical" -> {"technical"}
      [] kw = "narrow" -> {"narrow"}
      [] kw = "sharp" -> {"sharp"}
      [] OTHER -> {kw}
contains_word(section, kw) ==
    \E k \in 1..Len(section) :
        section[k].t = "word" /\ section[k].s \in WordsContaining(kw)
contains_percent(section) ==
    \E k \in 1..Len(section) : section[k].t = "sym" /\ section[k].s = "%"

\* float("12.5") of the digits a regex group captured (the sign is not captured)
number_value_mut(tok) == R(tok.whole, 1)
number_value(tok) ==
    R(tok.whole * 10 + (IF tok.frac = None THEN 0 ELSE tok.frac[1]), 10)

\* re.search(r"[-]?(\d+(?:\.\d+)?)\s*%", section): the first number that a
\* "%" follows, as Some(value of group 1), or None
gradient_match(section) ==
    LET hits == {k \in 1..(Len(section) - 1) :
                    /\ section[k].t = "num"
                    /\ section[k + 1].t = "sym" /\ section[k + 1].s = "%"}
    IN IF hits = {} THEN None
       ELSE Some(number_value(section[CHOOSE k \in hits : \A j \in hits : k <= j]))

\* re.search(r"mile\s+(\d+(?:\.\d+)?)", section): the first unsigned number
\* that follows the word "mile"
mile_match(section) ==
    LET hits == {k \in 1..(Len(section) - 1) :
                    /\ section[k].t = "word" /\ section[k].s = "mile"
                    /\ section[k + 1].t = "num" /\ ~section[k + 1].neg}
    IN IF hits = {} THEN None
       ELSE Some(number_value(section[(CHOOSE k \in hits : \A j \in hits : k <= j) + 1]))

technical_keywords == {"switchback", "technical", "narrow", "sharp"}

\* the factors one technical section adds
section_factors(section) ==
    (IF contains_word(section, "descent") \/ contains_percent(section)
     THEN LET m == gradient_match(section)
          IN IF m # None /\ RGt(RAbs(m[1]), R(8, 1))
             THEN <<RMin(One, RDiv(RAbs(m[1]), R(20, 1)))>> ELSE <<>>
     ELSE <<>>)
    \o (IF \E kw \in technical_keywords : contains_word(section, kw)
        THEN <<R(1, 2)>> ELSE <<>>)

\* the factors one climb adds
climb_factors(climb) ==
    (IF RGt(climb.max_grade, R(15, 1))
     THEN <<RMin(One, RDiv(climb.max_grade, R(30, 1)))>> ELSE <<>>)
    \o (IF RGt(climb.avg_grade, R(10, 1))
        THEN <<RMin(One, RDiv(climb.avg_grade, R(20, 1)))>> ELSE <<>>)

\* the two loops that fill factors
RECURSIVE all_climb_factors(_)
all_climb_factors(key_climbs) ==
    IF key_climbs = <<>> THEN <<>>
    ELSE climb_factors(key_climbs[1]) \o all_climb_factors(Tail(key_climbs))

RECURSIVE all_section_factors(_)
all_section_factors(technical_sections) ==
    IF technical_sections = <<>> THEN <<>>
    ELSE section_factors(technical_sections[1])
         \o all_section_factors(Tail(technical_sections))

\* _calculate_technical_difficulty
_calculate_technical_difficulty(c) ==
    LET factors == all_climb_factors(c.key_climbs)
                   \o all_section_factors(c.technical_sections)
    IN IF factors # <<>> THEN mean(factors) ELSE Zero

\* _assess_strategic_importance: the factors joined by "; ", kept as a list
_assess_strategic_importance(climb, c) ==
    LET near(section) ==
            /\ contains_word(section, "descent")
            /\ mile_match(section) # None
            /\ RLt(RAbs(RSub(mile_match(section)[1],
                             RAdd(climb.start_mile, climb.length_miles))), R(2, 1))
        importance_factors ==
            (IF RGt(climb.start_mile, RMul(c.bike_distance_miles, R(7, 10)))
             THEN <<"Late-race position increases importance">> ELSE <<>>)
            \o (IF RGt(climb.avg_grade, R(10, 1))
                THEN <<"Steep gradient creates selection">> ELSE <<>>)
            \o (IF RGt(climb.length_miles, R(2, 1))
                THEN <<"Sustained effort required">> ELSE <<>>)
            \o (IF \E k \in 1..Len(c.technical_sections) : near(c.technical_sections[k])
                THEN <<"Followed by technical descent">> ELSE <<>>)
    IN IF importance_factors # <<>> THEN importance_factors ELSE <<"Key segment">>

\* the difficulty score of one climb, before the min(1.0, ...)
climb_difficulty_score(climb, c) ==
    RSum(<<RMul(RDiv(climb.avg_grade, R(10, 1)), R(4, 10)),
           RMul(RDiv(climb.max_grade, R(20, 1)), R(2, 10)),
           RMul(RDiv(climb.length_miles, R(3, 1)), R(2, 10)),
           RMul(RDiv(RInt(climb.elevation_gain_ft), R(1000, 1)), R(2, 10)),
           RMul(RDiv(climb.start_mile, c.bike_distance_miles), R(1, 10))>>)

crux_candidate(climb, c) ==
    [name |-> climb.name,
     start_mile |-> climb.start_mile,
     length_miles |-> climb.length_miles,
     avg_grade |-> climb.avg_grade,
     max_grade |-> climb.max_grade,
     elevation_gain_ft |-> climb.elevation_gain_ft,
     difficulty_score |-> RMin(One, climb_difficulty_score(climb, c)),
     strategic_importance |-> _assess_strategic_importance(climb, c)]

sort_by_score_mut(s) == s

\* crux_candidates.sort(key=difficulty_score, reverse=True): stable, descending
RECURSIVE sort_by_score(_)
sort_by_score(s) ==
    IF s = <<>> THEN <<>>
    ELSE LET rest == sort_by_score(Tail(s))
             before == SelectSeq(rest, LAMBDA x : RGt(x.difficulty_score, s[1].difficulty_score))
             after == SelectSeq(rest, LAMBDA x : ~RGt(x.difficulty_score, s[1].difficulty_score))
         IN before \o <<s[1]>> \o after

\* _identify_crux_segments(course, top_n)
_identify_crux_segments(c, top_n) ==
    LET crux_candidates ==
            sort_by_score(AsList([k \in 1..Len(c.key_climbs) |->
                             crux_candidate(c.key_climbs[k], c)]))
    IN SubSeq(crux_candidates, 1,
              IF Len(crux_candidates) < top_n THEN Len(crux_candidates) ELSE top_n)

\* the points the elevation intensity adds to the rating
intensity_points(elevation_intensity) ==
    IF RLt(elevation_intensity, R(20, 1)) THEN R(1, 2)
    ELSE IF RLt(elevation_intensity, R(50, 1)) THEN One
    ELSE IF RLt(elevation_intensity, R(100, 1)) THEN R(2, 1)
    ELSE IF RLt(elevation_intensity, R(150, 1)) THEN R(5, 2)
    ELSE R(3, 1)

\* _calculate_overall_rating
_calculate_overall_rating(elevation_intensity, gradient_stats, climb_clustering, technical_score, altitude_ft) ==
    LET rating ==
          RSum(<<One,
                 intensity_points(elevation_intensity),
                 RMin(R(2, 1), RDiv(gradient_stats.avg, R(5, 1))),
                 RMin(One, RDiv(gradient_stats.max, R(20, 1))),
                 climb_clustering,
                 technical_score,
                 IF altitude_ft > 5000
                 THEN RMin(One, R(altitude_ft - 5000, 5000)) ELSE Zero>>)
    IN RMin(R(10, 1), round1(rating))

\* calculate_difficulty: [raised, metrics]. The divisions by
\* course.bike_distance_miles in _analyze_climb_clustering (two climbs or more)
\* and _identify_crux_segments (one climb or more) raise ZeroDivisionError on 0.
\* difficulty_justification and strategic_insights (texts) are left out.
calculate_difficulty(c) ==
    IF c.key_climbs # <<>> /\ c.bike_distance_miles = Zero
    THEN [raised |-> Some("ZeroDivisionError"), metrics |-> None]
    ELSE CHOOSE returned \in
             {[raised |-> None,
               metrics |-> Some(
                 [overall_rating |->
                      _calculate_overall_rating(elevation_intensity, gradient_stats,
                          climb_clustering, technical_score, c.altitude_ft),
                  elevation_intensity |-> elevation_intensity,
                  avg_gradient |-> gradient_stats.avg,
                  max_gradient |-> gradient_stats.max,
                  gradient_variance |-> gradient_stats.variance,
                  climb_clustering_score |-> climb_clustering,
                  technical_difficulty |-> technical_score,
                  crux_segments |-> crux_segments])] :
                 elevation_intensity \in {_calculate_elevation_intensity(c)},
                 gradient_stats \in {_analyze_gradient_distribution(c)},
                 climb_clustering \in {_analyze_climb_clustering(c)},
                 technical_score \in {_calculate_technical_difficulty(c)},
                 crux_segments \in {_identify_crux_segments(c, 3)}} : TRUE

key_climbs_after_sort_mut(key_climbs) == <<key_climbs[Len(key_climbs)]>> \o SubSeq(key_climbs, 1, Len(key_climbs) - 1)

\* course.key_climbs after climb_positions.sort() and crux_candidates.sort(...):
\* both lists are built inside the call (from start_mile values and from new
\* dicts), so the list the profile holds keeps its order
key_climbs_after_sort(key_climbs) == key_climbs

\* the profile object as calculate_difficulty leaves it: the methods read the
\* attributes of course and of its climbs and assign none of them
course_after_calculate_difficulty(c) ==
    IF c.key_climbs = <<>> THEN c
    ELSE [c EXCEPT !.key_climbs = key_climbs_after_sort(c.key_climbs)]

\* course1.name if metrics1.overall_rating > metrics2.overall_rating else
\* course2.name
harder_course_mut(overall_rating1, overall_rating2) == IF RLt(overall_rating1, overall_rating2) THEN 1 ELSE 2
harder_course(overall_rating1, overall_rating2) == IF RGt(overall_rating1, overall_rating2) THEN 1 ELSE 2

\* compare_courses(course1, course2) without its metrics_comparison table and
\* its key_differences texts; harder_course is 1 for the name of course1, 2
\* for the name of course2
compare_courses(c1, c2) ==
    IF calculate_difficulty(c1).raised # None
    THEN [raised |-> calculate_difficulty(c1).raised, comparison |-> None]
    ELSE IF calculate_difficulty(c2).raised # None
    THEN [raised |-> calculate_difficulty(c2).raised, comparison |-> None]
    ELSE [raised |-> None,
          comparison |-> Some(
            [difficulty_difference |->
                 RSub(calculate_difficulty(c1).metrics[1].overall_rating,
                      calculate_difficulty(c2).metrics[1].overall_rating),
             harder_course |->
                 harder_course(calculate_difficulty(c1).metrics[1].overall_rating,
                               calculate_difficulty(c2).metrics[1].overall_rating)])]

\* ------------------------------------------------------------ RaceStrategyPipeline
\* difficulty_metrics.crux_segments[:5], the segments generate_strategy hands
\* to the segment analyzer
first_segments(crux_segments) ==
    SubSeq(crux_segments, 1, IF Len(crux_segments) < 5 THEN Len(crux_segments) ELSE 5)

\* generate_strategy(course, athlete, conditions), steps 1 and 3: the language
\* model calls are left out, and a segment analysis is represented by the
\* segment it was run on. An exception of calculate_difficulty propagates.
generate_strategy(c) ==
    IF calculate_difficulty(c).raised # None
    THEN [raised |-> calculate_difficulty(c).raised, segment_analyses |-> <<>>]
    ELSE [raised |-> None,
          segment_analyses |-> first_segments(calculate_difficulty(c).metrics[1].crux_segments)]

\* ------------------------------------------------------------ DataValidator
\* A validated course carries name (a text; None and "" are both <<>>),
\* bike_distance_miles and bike_elevation_gain_ft (rationals, or None), the
\* climbs, the elevation profile, gps_metadata (None or a record) and the
\* start and finish coordinates (None or <<lat, lon>>).

MAX_REASONABLE_GRADIENT == R(35, 1)
MAX_ELEVATION_GAIN_PER_MILE == R(1500, 1)
MIN_COURSE_DISTANCE == R(5, 1)
MAX_COURSE_DISTANCE == R(200, 1)
MAX_ELEVATION_FT == R(29000, 1)
MIN_ELEVATION_FT == R(-500, 1)
MIN_GPS_POINTS == 10

\* ValidationResult without its message, details and suggested_fix texts
ValidationResult(check_name, passed, severity) ==
    [check_name |-> check_name, passed |-> passed, severity |-> severity]

\* what a check hands back: an exception, one ValidationResult, or a list
Raises(type) == [raised |-> Some(type), is_list |-> FALSE, value |-> None]
Returns(r) == [raised |-> None, is_list |-> FALSE, value |-> r]
ReturnsList(results) == [raised |-> None, is_list |-> TRUE, value |-> results]

\* str.strip() on a text whose blanks are Sym(" ") tokens
RECURSIVE strip(_)
strip(name) ==
    IF name = <<>> THEN name
    ELSE IF Head(name) = Sym(" ") THEN strip(Tail(name))
    ELSE IF name[Len(name)] = Sym(" ") THEN strip(SubSeq(name, 1, Len(name) - 1))
    ELSE name

\* the three tests that fill errors, on numbers that are not None
basic_course_data_passed(name_missing, distance, gain) ==
    ~name_missing /\ ~RLe(distance, Zero) /\ ~RLt(gain, Zero)

_validate_basic_course_data(c) ==
    IF c.bike_distance_miles = None \/ c.bike_elevation_gain_ft = None
    THEN Raises("TypeError")
    ELSE IF basic_course_data_passed(c.name = <<>> \/ strip(c.name) = <<>>,
                                     c.bike_distance_miles, c.bike_elevation_gain_ft)
    THEN Returns(ValidationResult("Basic Course Data", TRUE, "info"))
    ELSE Returns(ValidationResult("Basic Course Data", FALSE, "critical"))

_validate_distance_bounds(c) ==
    IF c.bike_distance_miles = None THEN Raises("TypeError")
    ELSE IF RLt(c.bike_distance_miles, MIN_COURSE_DISTANCE)
    THEN Returns(ValidationResult("Distance Bounds", FALSE, "critical"))
    ELSE IF RGt(c.bike_distance_miles, MAX_COURSE_DISTANCE)
    THEN Returns(ValidationResult("Distance Bounds", FALSE, "critical"))
    ELSE Returns(ValidationResult("Distance Bounds", TRUE, "info"))

\* total_gain / distance if distance > 0 else 0: None when the expression
\* raises TypeError (distance is None, or gain is None and is divided)
gain_per_mile(gain, distance) ==
    IF distance = None THEN None
    ELSE IF ~RGt(distance, Zero) THEN Some(Zero)
    ELSE IF gain = None THEN None
    ELSE Some(RDiv(gain, distance))

\* [point.elevation_ft for point in course.elevation_profile if ... is not None]
elevations_of(elevation_profile) ==
    SelectSeq(AsList([k \in 1..Len(elevation_profile) |->
                         elevation_profile[k].elevation_ft]),
              LAMBDA e : e # None)

elevation_bounds_result(elevations) ==
    IF \E k \in 1..Len(elevations) :
          RLt(elevations[k], MIN_ELEVATION_FT) \/ RGt(elevations[k], MAX_ELEVATION_FT)
    THEN ValidationResult("Elevation Bounds", FALSE, "warning")
    ELSE ValidationResult("Elevation Bounds", TRUE, "info")

_validate_elevation_data(c) ==
    IF c.elevation_profile = <<>>
    THEN ReturnsList(<<ValidationResult("Elevation Profile", FALSE, "critical")>>)
    ELSE IF elevations_of(c.elevation_profile) = <<>>
    THEN ReturnsList(<<ValidationResult("Elevation Values", FALSE, "critical")>>)
    ELSE IF gain_per_mile(c.bike_elevation_gain_ft, c.bike_distance_miles) = None
    THEN Raises("TypeError")
    ELSE ReturnsList(<<
        elevation_bounds_result(elevations_of(c.elevation_profile)),
        IF RGt(gain_per_mile(c.bike_elevation_gain_ft, c.bike_distance_miles)[1],
               MAX_ELEVATION_GAIN_PER_MILE)
        THEN ValidationResult("Elevation Gain Rate", FALSE, "warning")
        ELSE ValidationResult("Elevation Gain Rate", TRUE, "info")>>)

\* climb.max_grade > 50.0, and the grades above MAX_REASONABLE_GRADIENT below it
impossible_gradients(key_climbs) ==
    SelectSeq(key_climbs, LAMBDA climb : RGt(climb.max_grade, R(50, 1)))
extreme_gradients(key_climbs) ==
    SelectSeq(key_climbs, LAMBDA climb :
        RGt(climb.max_grade, MAX_REASONABLE_GRADIENT) /\ ~RGt(climb.max_grade, R(50, 1)))

_validate_gradient_calculations(c) ==
    IF c.key_climbs = <<>>
    THEN ReturnsList(<<ValidationResult("Gradient Calculations", TRUE, "info")>>)
    ELSE ReturnsList(
        (IF impossible_gradients(c.key_climbs) # <<>>
         THEN <<ValidationResult("Impossible Gradients", FALSE, "critical")>>
         ELSE <<>>)
        \o (IF extreme_gradients(c.key_climbs) # <<>>
            THEN <<ValidationResult("Extreme Gradients", FALSE, "warning")>>
            ELSE <<>>)
        \o (IF extreme_gradients(c.key_climbs) = <<>>
               /\ impossible_gradients(c.key_climbs) = <<>>
            THEN <<ValidationResult("Gradient Calculations", TRUE, "info")>>
            ELSE <<>>))

\* a climb that adds to invalid_climbs
invalid_climb(climb) ==
    \/ RLe(climb.length_miles, Zero)
    \/ climb.elevation_gain_ft <= 0
    \/ RLe(climb.avg_grade, Zero)

_validate_climb_detection(c) ==
    IF c.key_climbs = <<>>
    THEN IF gain_per_mile(c.bike_elevation_gain_ft, c.bike_distance_miles) = None
         THEN Raises("TypeError")
         ELSE IF RGt(gain_per_mile(c.bike_elevation_gain_ft, c.bike_distance_miles)[1],
                     R(100, 1))
         THEN Returns(ValidationResult("Climb Detection", FALSE, "warning"))
         ELSE Returns(ValidationResult("Climb Detection", TRUE, "info"))
    ELSE IF \E k \in 1..Len(c.key_climbs) : invalid_climb(c.key_climbs[k])
    THEN Returns(ValidationResult("Climb Detection", FALSE, "critical"))
    ELSE Returns(ValidationResult("Climb Detection", TRUE, "info"))

_validate_gps_point_quality(c) ==
    IF c.elevation_profile = <<>>
    THEN ReturnsList(<<ValidationResult("GPS Point Quality", FALSE, "critical")>>)
    ELSE IF Len(c.elevation_profile) < MIN_GPS_POINTS
    THEN ReturnsList(<<ValidationResult("GPS Point Count", FALSE, "critical")>>)
    ELSE IF c.gps_metadata # None /\ c.gps_metadata.large_distance_jumps > 0
    THEN IF c.bike_distance_miles = None THEN Raises("TypeError")
         ELSE IF c.bike_distance_miles = Zero THEN Raises("ZeroDivisionError")
         ELSE IF RGt(RDiv(RInt(c.gps_metadata.large_distance_jumps),
                          c.bike_distance_miles), R(1, 2))
         THEN ReturnsList(<<ValidationResult("GPS Point Continuity", FALSE, "warning"),
                            ValidationResult("GPS Point Count", TRUE, "info")>>)
         ELSE ReturnsList(<<ValidationResult("GPS Point Continuity", TRUE, "info"),
                            ValidationResult("GPS Point Count", TRUE, "info")>>)
    ELSE ReturnsList(<<ValidationResult("GPS Point Count", TRUE, "info")>>)

\* climb_total_gain = sum(climb.elevation_gain_ft for climb in course.key_climbs)
RECURSIVE climb_total_gain(_)
climb_total_gain(key_climbs) ==
    IF key_climbs = <<>> THEN 0
    ELSE Head(key_climbs).elevation_gain_ft + climb_total_gain(Tail(key_climbs))

elevation_consistency_results(c) ==
    IF c.key_climbs = <<>> THEN <<>>
    ELSE IF RGt(RInt(climb_total_gain(c.key_climbs)),
                RMul(c.bike_elevation_gain_ft, R(3, 2)))
    THEN <<ValidationResult("Elevation Consistency", FALSE, "warning")>>
    ELSE <<ValidationResult("Elevation Consistency", TRUE, "info")>>

\* -90 <= lat <= 90 and -180 <= lon <= 180
coords_in_bounds(coords) ==
    /\ RLe(R(-90, 1), coords[1]) /\ RLe(coords[1], R(90, 1))
    /\ RLe(R(-180, 1), coords[2]) /\ RLe(coords[2], R(180, 1))

coordinate_bounds_results(c) ==
    IF c.start_coords = None \/ c.finish_coords = None THEN <<>>
    ELSE IF ~coords_in_bounds(c.start_coords)
    THEN <<ValidationResult("Coordinate Bounds", FALSE, "critical")>>
    ELSE IF ~coords_in_bounds(c.finish_coords)
    THEN <<ValidationResult("Coordinate Bounds", FALSE, "critical")>>
    ELSE <<ValidationResult("Coordinate Bounds", TRUE, "info")>>

_validate_course_consistency(c) ==
    IF c.key_climbs # <<>> /\ c.bike_elevation_gain_ft = None
    THEN Raises("TypeError")
    ELSE ReturnsList(elevation_consistency_results(c) \o coordinate_bounds_results(c))

_validate_technical_sections(c) ==
    Returns(ValidationResult("Technical Sections", TRUE, "info"))

\* self.validation_checks, by position, with each function's __name__
validation_check_names ==
    <<"_validate_basic_course_data", "_validate_distance_bounds",
      "_validate_elevation_data", "_validate_gradient_calculations",
      "_validate_climb_detection", "_validate_gps_point_quality",
      "_validate_course_consistency", "_validate_technical_sections">>

validation_check(k, c) ==
    CASE k = 1 -> _validate_basic_course_data(c)
      [] k = 2 -> _validate_distance_bounds(c)
      [] k = 3 -> _validate_elevation_data(c)
      [] k = 4 -> _validate_gradient_calculations(c)
      [] k = 5 -> _validate_climb_detection(c)
      [] k = 6 -> _validate_gps_point_quality(c)
      [] k = 7 -> _validate_course_consistency(c)
      [] k = 8 -> _validate_technical_sections(c)

error_result_mut(k) == <<>>

\* the except branch: one failed critical result named after the check
error_result(k) == <<ValidationResult(validation_check_names[k], FALSE, "critical")>>

\* one pass of the for loop body: what check k adds to validation_results
check_results(k, outcome) ==
    IF outcome.raised # None THEN error_result(k)
    ELSE IF outcome.is_list THEN outcome.value
    ELSE <<outcome.value>>

RECURSIVE run_checks(_, _, _)
\* for validation_check in self.validation_checks, from check k on
run_checks(validation_results, k, c) ==
    IF k > Len(validation_check_names) THEN validation_results
    ELSE run_checks(validation_results \o check_results(k, validation_check(k, c)),
                    k + 1, c)

DataQualityReport(course_name, overall_score, total_checks, passed_checks, critical_failures, warnings, validation_results) ==
    [course_name |-> course_name, overall_score |-> overall_score,
     total_checks |-> total_checks, passed_checks |-> passed_checks,
     critical_failures |-> critical_failures, warnings |-> warnings,
     validation_results |-> validation_results]

\* sum(1 for r in report.validation_results if ...)
count_passed(results) ==
    Cardinality({k \in 1..Len(results) : results[k].passed})
count_failed_mut(results, severity) == Cardinality({k \in 1..Len(results) : ~results[k].passed})
count_failed(results, severity) ==
    Cardinality({k \in 1..Len(results) :
                    ~results[k].passed /\ results[k].severity = severity})

weighted_score_mut(passed_checks, total_checks, critical_failures, warnings) == R(passed_checks * 100, total_checks)

\* max(0, base_score - critical_penalty - warning_penalty)
weighted_score(passed_checks, total_checks, critical_failures, warnings) ==
    RMax(Zero, RSub(RSub(RMul(R(passed_checks, total_checks), RInt(100)),
                         RInt(critical_failures * 20)),
                    RInt(warnings * 5)))

\* the totals and the score computed from the collected results
scored_report(course_name, results) ==
    DataQualityReport(
        course_name,
        IF Len(results) > 0
        THEN weighted_score(count_passed(results), Len(results),
                            count_failed(results, "critical"),
                            count_failed(results, "warning"))
        ELSE Zero,
        Len(results), count_passed(results),
        count_failed(results, "critical"), count_failed(results, "warning"),
        results)

validate_course(c) ==
    [raised |-> None,
     report |-> Some(scored_report(
         IF c.name # <<>> THEN c.name ELSE <<Word("Unknown"), Word("Course")>>,
         run_checks(<<>>, 1, c)))]

\* the profile object as validate_course leaves it: the eight checks read
\* the attributes of course and assign none of them
course_after_validate_course(c) == c

is_valid_for_strategy_mut(self) == RGe(self.overall_score, R(75, 1))

\* DataQualityReport.is_valid_for_strategy
is_valid_for_strategy(self) ==
    self.critical_failures = 0 /\ RGe(self.overall_score, R(75, 1))

\* ------------------------------------------------------------ the parser's life
NoCtor == [config |-> None, activity_config |-> None, activity_type |-> None]
InitParserIdle ==
    /\ ctor = NoCtor
    /\ parser = GPSParser(None, None, None, None, None)
    /\ track_points = <<>>
    /\ result = None
InitClimbIdle ==
    /\ gps_points = <<>>
    /\ i = 1
    /\ current_climb = None
    /\ climbs = <<>>
InitCalcIdle ==
    /\ course = None
    /\ metrics = None
    /\ course2 = None
    /\ comparison = None

InitFileIdle ==
    /\ gpx = None

InitValidatorIdle ==
    /\ report = None
    /\ valid = None

InitPipelineIdle ==
    /\ strategy = None

InitSectionIdle ==
    /\ detected_sections = None

\* a course next to the equator and the prime meridian, so that a GPS-loss
\* fix (0, 0) is a short hop away: latitude steps of 0.004 degree (0.28 mi),
\* elevations in metres, and one point of each anomaly
CourseLon == R(1, 100)
PointKinds ==
    {TrackPoint(Zero, CourseLon, Some(R(100, 1))),
     TrackPoint(R(4, 1000), CourseLon, Some(R(120, 1))),
     TrackPoint(Zero, CourseLon, Some(R(150, 1))),
     TrackPoint(R(4, 1000), CourseLon, Some(R(150, 1))),
     TrackPoint(Zero, CourseLon, None),                       \* no <ele>
     TrackPoint(R(20, 1000), CourseLon, Some(R(-400, 1))),    \* jump, elevation
     TrackPoint(R(95, 1), CourseLon, Some(R(100, 1))),        \* latitude
     TrackPoint(Zero, R(200, 1), None),                       \* longitude, no <ele>
     TrackPoint(Zero, Zero, None)}                            \* GPS loss, no <ele>

\* the constructor calls explored: GPSParser(), GPSParser(activity_type="running")
\* and GPSParser(config=GPSParserConfig(quality_penalty_factor=25.0))
CtorArgs ==
    {[config |-> None, activity_config |-> None, activity_type |-> None],
     [config |-> None, activity_config |-> None, activity_type |-> Some("running")],
     [config |-> Some([GPSParserConfig EXCEPT !.quality_penalty_factor = R(25, 1)]),
      activity_config |-> None, activity_type |-> None]}

Init ==
    /\ InitSectionIdle
    /\ InitPipelineIdle
    /\ ctor \in CtorArgs
    /\ parser = GPSParser(ctor.config, ctor.activity_config, ctor.activity_type, None, None)
    /\ track_points = <<>>
    /\ result = None
    /\ InitClimbIdle
    /\ InitCalcIdle
    /\ InitFileIdle
    /\ InitValidatorIdle

\* the next GPX file is written, one track point at a time
AppendTrackPoint ==
    /\ result = None
    /\ Len(track_points) < MaxTrack
    /\ \E p \in PointKinds : track_points' = Append(track_points, p)
    /\ UNCHANGED <<ctor, parser, result, climbVars, calcVars, fileVars, validatorVars, pipelineVars, sectionVars>>

\* parser.parse_gpx_file(file_path)
ParseGpxFile ==
    /\ result = None
    /\ \E call \in {parse_gpx_file(parser, track_points)} :
          /\ result' = Some([raised |-> call.raised, profile |-> call.profile])
          /\ parser' = call.self
    /\ UNCHANGED <<ctor, track_points, climbVars, calcVars, fileVars, validatorVars, pipelineVars, sectionVars>>

\* the caller moves on to another file with the same parser instance
NextFile ==
    /\ result # None
    /\ track_points' = <<>>
    /\ result' = None
    /\ UNCHANGED <<ctor, parser, climbVars, calcVars, fileVars, validatorVars, pipelineVars, sectionVars>>

Next == AppendTrackPoint \/ ParseGpxFile \/ NextFile

Spec == Init /\ [][Next]_vars

\* ------------------------------------------------------------ climb detector, step by step
GradeSet == {None, Some(R(-1, 1)), Some(Zero), Some(R(3, 1)), Some(R(8, 1))}
IncSet == {R(1, 4), R(1, 2)}
ElevationShapes == {50, -50}
CtorSet == {GPSParser(None, None, None, None, None),
            GPSParser(None, None, None, Some(R(4, 1)), Some(R(3, 10)))}

RECURSIVE Cumulative(_, _)
Cumulative(incs, k) == IF k = 1 THEN Zero ELSE RAdd(Cumulative(incs, k - 1), incs[k])

DirectPoints(n, grades, incs, shape) ==
    AsList([k \in 1..n |->
        GPSPoint(R(400000 + 10 * k, 10000), R(-74, 1), RInt(1000 + shape * k),
                 Cumulative(incs, k), grades[k])])

InitClimb ==
    /\ InitSectionIdle
    /\ InitPipelineIdle
    /\ ctor = NoCtor
    /\ parser \in CtorSet
    /\ track_points = <<>>
    /\ result = None
    /\ \E n \in 1..MaxPts :
         \E grades \in [1..n -> GradeSet], incs \in [2..n -> IncSet],
            shape \in ElevationShapes :
            gps_points = DirectPoints(n, grades, incs, shape)
    /\ i = 1
    /\ current_climb = None
    /\ climbs = <<>>
    /\ InitCalcIdle
    /\ InitFileIdle
    /\ InitValidatorIdle

\* for i, point in enumerate(gps_points): one pass of the loop body
DetectClimbsStep ==
    /\ i <= Len(gps_points)
    /\ LET st == detect_climbs_iteration(
                    [current_climb |-> current_climb, climbs |-> climbs],
                    gps_points, i, parser)
       IN /\ current_climb' = st.current_climb
          /\ climbs' = st.climbs
    /\ i' = i + 1
    /\ UNCHANGED <<parserVars, gps_points, calcVars, fileVars, validatorVars, pipelineVars, sectionVars>>

NextClimb == DetectClimbsStep

SpecClimb == InitClimb /\ [][NextClimb]_vars

\* ------------------------------------------------------------ the gradient pass on a point list
MaxGradPts == 5

\* point lists as _process_track_points hands them over: distances that never
\* decrease (steps of 0, 0.25 and 0.5 mi), two elevations, no gradient yet
IngestedPoints(n, incs, elevations) ==
    AsList([k \in 1..n |->
        GPSPoint(R(400000 + 10 * k, 10000), R(-74, 1), elevations[k], Cumulative(incs, k), None)])

InitGradients ==
    /\ InitSectionIdle
    /\ InitPipelineIdle
    /\ ctor = NoCtor
    /\ parser = GPSParser(None, None, None, None, None)
    /\ track_points = <<>>
    /\ result = None
    /\ \E n \in 0..MaxGradPts :
         \E incs \in [2..n -> {Zero, R(1, 4), R(1, 2)}], elevations \in [1..n -> {R(100, 1), R(160, 1)}] :
            gps_points = IngestedPoints(n, incs, elevations)
    /\ i = 1
    /\ current_climb = None
    /\ climbs = <<>>
    /\ InitCalcIdle
    /\ InitFileIdle
    /\ InitValidatorIdle

\* self._calculate_gradients(gps_points) and
\* self._calculate_gradients(gps_points, smoothing_window): the list is
\* annotated in place; i ends past the last point when the loop has run
CalculateGradients ==
    /\ i = 1
    /\ \E smoothing_window \in {None, Some(1), Some(3)} :
          gps_points' = _calculate_gradients(gps_points, smoothing_window, parser)
    /\ i' = IF Len(gps_points) < 2 THEN i ELSE Len(gps_points) + 1
    /\ UNCHANGED <<parserVars, current_climb, climbs, calcVars, fileVars, validatorVars, pipelineVars, sectionVars>>

NextGradients == CalculateGradients

SpecGradients == InitGradients /\ [][NextGradients]_vars

\* ------------------------------------------------------------ the technical section detector on a point list
MaxSectionPts == 4

\* grades of two steep descents (-10% and -8.25%), a descent that only
\* continues one, a rise, and no grade
DescentGradeSet == {None, Some(R(-10, 1)), Some(R(-33, 4)), Some(R(-4, 1)), Some(R(2, 1))}

InitSections ==
    /\ InitPipelineIdle
    /\ ctor = NoCtor
    /\ parser = GPSParser(None, None, None, None, None)
    /\ track_points = <<>>
    /\ result = None
    /\ \E n \in 0..MaxSectionPts :
         \E grades \in [1..n -> DescentGradeSet], incs \in [2..n -> {R(1, 10), R(1, 4)}] :
            gps_points = DirectPoints(n, grades, incs, -50)
    /\ i = 1
    /\ current_climb = None
    /\ climbs = <<>>
    /\ InitCalcIdle
    /\ InitFileIdle
    /\ InitValidatorIdle
    /\ detected_sections = None

\* self._identify_technical_sections(gps_points) and
\* self._identify_technical_sections(gps_points, activity_config)
IdentifyTechnicalSections ==
    /\ detected_sections = None
    /\ \E activity_config \in {None, Some(get_running_config)} :
          detected_sections' =
              Some([activity_config |-> activity_config,
                    technical_sections |->
                        _identify_technical_sections(gps_points, activity_config, parser)])
    /\ UNCHANGED <<parserVars, climbVars, calcVars, fileVars, validatorVars, pipelineVars>>

NextSections == IdentifyTechnicalSections

SpecSections == InitSections /\ [][NextSections]_vars

\* ------------------------------------------------------------ calculate_difficulty on a profile
\* CourseProfile(...) as a caller or the JSON loader builds it: the fields
\* calculate_difficulty reads
CourseProfile(bike_distance_miles, bike_elevation_gain_ft, key_climbs, technical_sections, altitude_ft, elevation_profile) ==
    [bike_distance_miles |-> bike_distance_miles,
     bike_elevation_gain_ft |-> bike_elevation_gain_ft,
     key_climbs |-> key_climbs,
     technical_sections |-> technical_sections,
     altitude_ft |-> altitude_ft,
     elevation_profile |-> elevation_profile]

\* a ClimbSegment as a caller or the JSON loader builds it
Climb(mile, length_miles, avg_grade, max_grade, elevation_gain_ft) ==
    [name |-> <<Word("climb"), Word("at"), Word("mile"), FormatOneDecimal(mile)>>,
     start_mile |-> mile,
     length_miles |-> length_miles,
     avg_grade |-> avg_grade,
     max_grade |-> max_grade,
     elevation_gain_ft |-> elevation_gain_ft]

\* climbs: a gentle one, a long steep late one, a middle one, and a segment
\* stored with a negative average grade and no maximum
ClimbKinds ==
    {Climb(R(2, 1), One, R(4, 1), R(6, 1), 200),
     Climb(R(8, 1), R(3, 1), R(12, 1), R(18, 1), 1500),
     Climb(R(5, 1), R(2, 1), R(6, 1), R(9, 1), 600),
     Climb(R(5, 1), One, R(-20, 1), Zero, 0)}

RECURSIVE SeqsUpTo(_, _)
SeqsUpTo(S, n) ==
    IF n = 0 THEN {<<>>}
    ELSE LET shorter == SeqsUpTo(S, n - 1)
         IN shorter \cup {Append(s, x) : s \in {t \in shorter : Len(t) = n - 1}, x \in S}

\* "Technical descent at mile 12 (-8% grade)", "Steep descent -15%",
\* "Sharp switchbacks at mile 9.5", "Technical descent -15%"
SectionLists ==
    {<<>>,
     << <<Word("technical"), Word("descent"), Num(TRUE, 15, None), Sym("%")>> >>,
     << <<Word("technical"), Word("descent"), Word("at"), Word("mile"),
          Num(FALSE, 12, None), Sym("("), Num(TRUE, 8, None), Sym("%"),
          Word("grade"), Sym(")")>> >>,
     << <<Word("steep"), Word("descent"), Num(TRUE, 15, None), Sym("%")>> >>,
     << <<Word("sharp"), Word("switchbacks"), Word("at"), Word("mile"),
          Num(FALSE, 9, Some(5))>>,
        <<Word("steep"), Word("descent"), Num(TRUE, 15, None), Sym("%")>> >>}

ElevationProfiles ==
    {<<>>,
     <<GPSPoint(Zero, CourseLon, R(100, 1), Zero, None),
       GPSPoint(R(4, 1000), CourseLon, R(150, 1), One, Some(R(-2, 1)))>>}

CourseSet ==
    {CourseProfile(d, g, kc, ts, a, ep) :
        d \in {Zero, R(10, 1), R(56, 1)}, g \in {0, 500, 8000},
        kc \in SeqsUpTo(ClimbKinds, MaxClimbs), ts \in SectionLists,
        a \in {0, 100, 8000}, ep \in ElevationProfiles}

InitCalc ==
    /\ InitSectionIdle
    /\ InitPipelineIdle
    /\ InitParserIdle
    /\ InitClimbIdle
    /\ InitFileIdle
    /\ InitValidatorIdle
    /\ course \in CourseSet
    /\ metrics = None
    /\ course2 = None
    /\ comparison = None

\* calculator.calculate_difficulty(course)
CalculateDifficulty ==
    /\ metrics = None
    /\ metrics' = Some(calculate_difficulty(course))
    /\ course' = course_after_calculate_difficulty(course)
    /\ UNCHANGED <<parserVars, climbVars, course2, comparison, fileVars, validatorVars, pipelineVars, sectionVars>>

NextCalc == CalculateDifficulty

SpecCalc == InitCalc /\ [][NextCalc]_vars

\* ------------------------------------------------------------ a parsed profile handed to the calculator
\* track points 1400 ft apart (1/264 degree of latitude) and twice as far,
\* with elevations given in metres that are 0 ft and 140 ft, and a point
\* without <ele>: steps of +10%, -10%, -5% and 0%
CourseElevation(feet) == Some(R(25000 * feet, 82021))
CoursePointKinds ==
    {TrackPoint(Zero, CourseLon, CourseElevation(0)),
     TrackPoint(R(1, 264), CourseLon, CourseElevation(140)),
     TrackPoint(R(3, 264), CourseLon, CourseElevation(0)),
     TrackPoint(Zero, CourseLon, None)}

\* the GPX file is written, one track point at a time
AppendCoursePoint ==
    /\ result = None
    /\ Len(track_points) < MaxTrack
    /\ \E p \in CoursePointKinds : track_points' = Append(track_points, p)
    /\ UNCHANGED <<ctor, parser, result, climbVars, calcVars, fileVars, validatorVars, pipelineVars, sectionVars>>

\* course = parser.parse_gpx_file(file_path)
ParseCourse ==
    /\ result = None
    /\ course = None
    /\ \E call \in {parse_gpx_file(parser, track_points)} :
          /\ result' = Some([raised |-> call.raised, profile |-> call.profile])
          /\ parser' = call.self
          /\ course' = IF call.raised = None THEN call.profile[1] ELSE None
    /\ UNCHANGED <<ctor, track_points, climbVars, metrics, course2, comparison, fileVars, validatorVars, pipelineVars, sectionVars>>

\* calculator.calculate_difficulty(course) on the profile the parser returned
CalculateParsedDifficulty ==
    /\ course # None
    /\ CalculateDifficulty

NextParsed == AppendCoursePoint \/ ParseCourse \/ CalculateParsedDifficulty

SpecParsed == Init /\ [][NextParsed]_vars

\* ------------------------------------------------------------ GPX files on disk
MaxParts == 5

\* the track points written into the files explored
GpxPointKinds ==
    {TrackPoint(Zero, CourseLon, Some(R(100, 1))),
     TrackPoint(R(4, 1000), CourseLon, Some(R(120, 1))),
     TrackPoint(R(1, 70), CourseLon, Some(R(150, 1))),      \* 1.0 mi from the first
     TrackPoint(R(3, 70), CourseLon, Some(R(200, 1)))}      \* 2.0 mi further

\* the paths handed to the parser: no file, a file gpxpy rejects, an empty <gpx/>
InitGpx ==
    /\ InitSectionIdle
    /\ InitPipelineIdle
    /\ ctor \in CtorArgs
    /\ parser = GPSParser(ctor.config, ctor.activity_config, ctor.activity_type, None, None)
    /\ track_points = <<>>
    /\ result = None
    /\ InitClimbIdle
    /\ InitCalcIdle
    /\ InitValidatorIdle
    /\ gpx \in {Some(GPXFile(FALSE, FALSE, <<>>)),
                Some(GPXFile(TRUE, FALSE, <<>>)),
                Some(GPXFile(TRUE, TRUE, <<>>))}

WithTracks(file, tracks) == GPXFile(file.found, file.wellformed, tracks)

\* the number of <trk>, <trkseg> and <trkpt> elements of the file
Elements(file) ==
    Len(file.tracks) + Len(extend_segments(<<>>, file.tracks))
        + Len(extend_tracks(<<>>, file.tracks))

\* a <trk> element is written
AddTrack ==
    /\ result = None
    /\ gpx[1].wellformed
    /\ Elements(gpx[1]) < MaxParts
    /\ gpx' = Some(WithTracks(gpx[1], Append(gpx[1].tracks, <<>>)))
    /\ UNCHANGED <<parserVars, climbVars, calcVars, validatorVars, pipelineVars, sectionVars>>

\* a <trkseg> element is written into the last track
AddSegment ==
    /\ result = None
    /\ gpx[1].tracks # <<>>
    /\ \E t \in {Len(gpx[1].tracks)} :
          /\ Elements(gpx[1]) < MaxParts
          /\ gpx' = Some(WithTracks(gpx[1],
                        [gpx[1].tracks EXCEPT ![t] = Append(@, <<>>)]))
    /\ UNCHANGED <<parserVars, climbVars, calcVars, validatorVars, pipelineVars, sectionVars>>

\* a <trkpt> element is written into the last segment of the last track
AddTrackPoint ==
    /\ result = None
    /\ gpx[1].tracks # <<>>
    /\ \E t \in {Len(gpx[1].tracks)} :
          /\ gpx[1].tracks[t] # <<>>
          /\ Elements(gpx[1]) < MaxParts
          /\ \E g \in {Len(gpx[1].tracks[t])}, p \in GpxPointKinds :
                gpx' = Some(WithTracks(gpx[1],
                          [gpx[1].tracks EXCEPT ![t][g] = Append(@, p)]))
    /\ UNCHANGED <<parserVars, climbVars, calcVars, validatorVars, pipelineVars, sectionVars>>

\* parser.parse_gpx_file(gpx_file_path)
ParseGpxPath ==
    /\ result = None
    /\ \E call \in {parse_gpx_path(parser, gpx[1])} :
          /\ result' = Some([raised |-> call.raised, profile |-> call.profile])
          /\ parser' = call.self
    /\ UNCHANGED <<ctor, track_points, climbVars, calcVars, fileVars, validatorVars, pipelineVars, sectionVars>>

NextGpx == AddTrack \/ AddSegment \/ AddTrackPoint \/ ParseGpxPath

SpecGpx == InitGpx /\ [][NextGpx]_vars

\* ------------------------------------------------------------ validate_course on a course
\* CourseProfile with the fields DataValidator reads
GPSCourseProfile(name, bike_distance_miles, bike_elevation_gain_ft, key_climbs, elevation_profile, gps_metadata, start_coords, finish_coords) ==
    [name |-> name,
     bike_distance_miles |-> bike_distance_miles,
     bike_elevation_gain_ft |-> bike_elevation_gain_ft,
     key_climbs |-> key_climbs,
     elevation_profile |-> elevation_profile,
     gps_metadata |-> gps_metadata,
     start_coords |-> start_coords,
     finish_coords |-> finish_coords]

\* n profile points one tenth of a mile apart, all at the given elevation
FlatProfile(n, elevation_ft) ==
    AsList([k \in 1..n |-> GPSPoint(Zero, CourseLon, elevation_ft, R(k, 10), Some(Zero))])

ValidatedProfiles ==
    {<<>>,
     FlatProfile(2, R(100, 1)),
     FlatProfile(MIN_GPS_POINTS, R(100, 1)),
     FlatProfile(MIN_GPS_POINTS, None),
     [FlatProfile(MIN_GPS_POINTS, R(100, 1)) EXCEPT ![3].elevation_ft = R(30000, 1)]}

ValidatedClimbs ==
    {<<>>,
     <<Climb(R(2, 1), One, R(4, 1), R(6, 1), 200)>>,
     <<Climb(R(2, 1), One, R(4, 1), R(6, 1), 200),
       Climb(R(8, 1), R(3, 1), R(12, 1), R(40, 1), 1500)>>,
     <<Climb(R(8, 1), R(3, 1), R(12, 1), R(60, 1), 1500)>>,
     <<Climb(R(5, 1), One, R(-20, 1), Zero, 0)>>}

\* GPSMetadata, of which the validator reads large_distance_jumps only
ValidatedMetadata ==
    {None} \cup {[large_distance_jumps |-> n] : n \in {0, 1, 40}}

ValidatedCoords ==
    {[start |-> None, finish |-> None],
     [start |-> <<R(40, 1), R(-74, 1)>>, finish |-> <<R(41, 1), R(-74, 1)>>],
     [start |-> <<R(95, 1), R(-74, 1)>>, finish |-> <<R(41, 1), R(-74, 1)>>],
     [start |-> <<R(40, 1), R(-74, 1)>>, finish |-> <<R(41, 1), R(-200, 1)>>]}

ValidatedCourses ==
    {GPSCourseProfile(name, d, g, climbs_, p, md, xy.start, xy.finish) :
        name \in {<<>>, <<Sym(" ")>>, <<Word("Test"), Word("Course")>>},
        d \in {None, Zero, R(3, 1), R(56, 1), R(250, 1)},
        g \in {None, RInt(-1), RInt(500), RInt(8000), RInt(100000)},
        climbs_ \in ValidatedClimbs,
        p \in ValidatedProfiles,
        md \in ValidatedMetadata,
        xy \in ValidatedCoords}

InitValidate ==
    /\ InitSectionIdle
    /\ InitPipelineIdle
    /\ InitParserIdle
    /\ InitClimbIdle
    /\ InitFileIdle
    /\ course \in ValidatedCourses
    /\ metrics = None
    /\ course2 = None
    /\ comparison = None
    /\ report = None
    /\ valid = None

\* validator.validate_course(course)
ValidateCourse ==
    /\ report = None
    /\ report' = Some(validate_course(course))
    /\ course' = course_after_validate_course(course)
    /\ UNCHANGED <<parserVars, climbVars, metrics, course2, comparison, fileVars, valid, pipelineVars, sectionVars>>

NextValidate == ValidateCourse

SpecValidate == InitValidate /\ [][NextValidate]_vars

\* ------------------------------------------------------------ a report built by hand
ReportScores == {Zero, R(55, 1), R(749, 10), R(75, 1), R(85, 1), RInt(100)}

\* DataQualityReport(course_name=..., overall_score=..., ...) as the tests build it
InitReport ==
    /\ InitSectionIdle
    /\ InitPipelineIdle
    /\ InitParserIdle
    /\ InitClimbIdle
    /\ InitCalcIdle
    /\ InitFileIdle
    /\ \E score \in ReportScores, checks \in {<<5, 4>>, <<10, 8>>}, warnings \in 0..2 :
          report = Some([raised |-> None,
                         report |-> Some(DataQualityReport(
                             <<Word("Test"), Word("Course")>>, score,
                             checks[1], checks[2], 0, warnings, <<>>))])
    /\ valid = None

\* report.critical_failures = n
SetCriticalFailures ==
    /\ \E n \in 0..2 :
          report' = Some([report[1] EXCEPT !.report[1].critical_failures = n])
    /\ valid' = None
    /\ UNCHANGED <<parserVars, climbVars, calcVars, fileVars, pipelineVars, sectionVars>>

\* report.overall_score = x
SetOverallScore ==
    /\ \E x \in ReportScores :
          report' = Some([report[1] EXCEPT !.report[1].overall_score = x])
    /\ valid' = None
    /\ UNCHANGED <<parserVars, climbVars, calcVars, fileVars, pipelineVars, sectionVars>>

\* report.is_valid_for_strategy
ReadIsValidForStrategy ==
    /\ valid' = Some(is_valid_for_strategy(report[1].report[1]))
    /\ UNCHANGED <<parserVars, climbVars, calcVars, fileVars, report, pipelineVars, sectionVars>>

NextReport == SetCriticalFailures \/ SetOverallScore \/ ReadIsValidForStrategy

SpecReport == InitReport /\ [][NextReport]_vars

\* ------------------------------------------------------------ calculate_difficulty on many climbs
MaxCrux == 4

\* a gentle climb and two different climbs whose scores both reach the cap 1.0
CruxClimbKinds ==
    {Climb(R(2, 1), One, R(4, 1), R(6, 1), 200),
     Climb(R(8, 1), R(3, 1), R(12, 1), R(18, 1), 1500),
     Climb(R(5, 1), R(4, 1), R(10, 1), R(20, 1), 2000)}

CruxCourseSet ==
    {CourseProfile(d, 2000, kc, ts, 100, <<>>) :
        d \in {R(10, 1), R(56, 1)}, kc \in SeqsUpTo(CruxClimbKinds, MaxCrux),
        ts \in {<<>>, << <<Word("steep"), Word("descent"), Num(TRUE, 15, None), Sym("%")>> >>}}

InitCrux ==
    /\ InitSectionIdle
    /\ InitPipelineIdle
    /\ InitParserIdle
    /\ InitClimbIdle
    /\ InitFileIdle
    /\ InitValidatorIdle
    /\ course \in CruxCourseSet
    /\ metrics = None
    /\ course2 = None
    /\ comparison = None

SpecCrux == InitCrux /\ [][NextCalc]_vars

\* ------------------------------------------------------------ generate_strategy on many climbs
MaxSegments == 5

\* courses of 10 and 56 mi, and of 0 mi, with up to MaxSegments climbs
StrategyCourseSet ==
    {CourseProfile(d, 2000, kc, <<>>, 100, <<>>) :
        d \in {Zero, R(10, 1), R(56, 1)}, kc \in SeqsUpTo(CruxClimbKinds, MaxSegments)}

InitStrategy ==
    /\ InitSectionIdle
    /\ InitParserIdle
    /\ InitClimbIdle
    /\ InitFileIdle
    /\ InitValidatorIdle
    /\ course \in StrategyCourseSet
    /\ metrics = None
    /\ course2 = None
    /\ comparison = None
    /\ strategy = None

\* pipeline.generate_strategy(course, athlete, conditions)
GenerateStrategy ==
    /\ strategy = None
    /\ strategy' = Some(generate_strategy(course))
    /\ UNCHANGED <<parserVars, climbVars, calcVars, fileVars, validatorVars, sectionVars>>

NextStrategy == GenerateStrategy

SpecStrategy == InitStrategy /\ [][NextStrategy]_vars

\* ------------------------------------------------------------ the stages that consume a profile
\* profiles for the calculator (they carry altitude_ft) and for the validator
\* (they carry name)
StageCourseSet ==
    {CourseProfile(d, 2000, kc, ts, 100, <<>>) :
        d \in {Zero, R(56, 1)},
        kc \in SeqsUpTo(CruxClimbKinds, 2),
        ts \in {<<>>, <<<<Word("technical"), Word("descent"), Word("at"), Word("mile"), Num(FALSE, 9, <<5>>)>>>>}}
ValidatedStageCourses ==
    {GPSCourseProfile(<<Word("Test")>>, d, RInt(2000), kc, p, None, None, None) :
        d \in {None, R(56, 1)},
        kc \in SeqsUpTo(CruxClimbKinds, 2),
        p \in {<<>>, FlatProfile(MIN_GPS_POINTS, R(100, 1))}}

InitStages ==
    /\ InitSectionIdle
    /\ InitPipelineIdle
    /\ InitParserIdle
    /\ InitClimbIdle
    /\ InitFileIdle
    /\ InitValidatorIdle
    /\ metrics = None
    /\ comparison = None
    /\ \/ course \in StageCourseSet /\ course2 \in {None} \cup {Some(c) : c \in StageCourseSet}
       \/ course \in ValidatedStageCourses /\ course2 = None

\* calculator.calculate_difficulty(course)
StageCalculateDifficulty ==
    /\ "altitude_ft" \in DOMAIN course
    /\ course2 = None
    /\ CalculateDifficulty

\* calculator.compare_courses(course, course2)
CompareCourses ==
    /\ course2 # None
    /\ comparison = None
    /\ comparison' = Some(compare_courses(course, course2[1]))
    /\ course' = course_after_calculate_difficulty(course)
    /\ course2' = Some(course_after_calculate_difficulty(course2[1]))
    /\ UNCHANGED <<parserVars, climbVars, metrics, fileVars, validatorVars, pipelineVars, sectionVars>>

\* validator.validate_course(course)
StageValidateCourse ==
    /\ "name" \in DOMAIN course
    /\ ValidateCourse

NextStages == StageCalculateDifficulty \/ CompareCourses \/ StageValidateCourse

SpecStages == InitStages /\ [][NextStages]_vars

\* ============================================================ claims
\* ------------------------------------------------------------ claims on calculate_difficulty
Returned == metrics # None /\ metrics[1].raised = None

\* C1: whenever calculate_difficulty returns, the overall_rating it returns
\* is at least 1.0 and at most 10.0.
C1_RatingInBounds ==
    Returned =>
        /\ RGe(metrics[1].metrics[1].overall_rating, One)
        /\ RLe(metrics[1].metrics[1].overall_rating, R(10, 1))

ZeroProfile == CourseProfile(Zero, 0, <<>>, <<>>, 0, <<>>)

\* C2: on the profile with zero distance, zero elevation gain, no climbs, no
\* technical sections and altitude 0, calculate_difficulty returns
\* overall_rating exactly 1.0, elevation_intensity 0 and no crux segments.
C2_ZeroProfileRatesOne ==
    (metrics # None /\ course = ZeroProfile) =>
        /\ metrics[1].raised = None
        /\ metrics[1].metrics[1].overall_rating = One
        /\ metrics[1].metrics[1].elevation_intensity = Zero
        /\ metrics[1].metrics[1].crux_segments = <<>>

\* ------------------------------------------------------------ claims on the parser
Parsed == result # None /\ result[1].raised = None
profile == result[1].profile[1]

\* the same constructor call, on an instance that has parsed nothing
FreshParser == GPSParser(ctor.config, ctor.activity_config, ctor.activity_type, None, None)

\* C3: for a parser built without an explicit activity configuration, the
\* climbs and technical sections returned for a track, after any earlier
\* parses on the instance, are those a fresh instance returns for that track.
C3_NoStateCarriedBetweenParses ==
    (Parsed /\ ctor.activity_config = None) =>
        LET fresh == parse_gpx_file(FreshParser, track_points).profile[1]
        IN /\ profile.key_climbs = fresh.key_climbs
           /\ profile.technical_sections = fresh.technical_sections

\* C8: in the points of a parsed profile the cumulative distance never
\* decreases from one point to the next.
C8_MonotonicDistance ==
    Parsed =>
        \A k \in 2..Len(profile.elevation_profile) :
            RGe(profile.elevation_profile[k].distance_miles,
                profile.elevation_profile[k - 1].distance_miles)

OutOfRangeLat(p) ==
    ~_is_coordinate_valid(p.latitude, parser.config.min_latitude, parser.config.max_latitude)
OutOfRangeLon(p) ==
    ~_is_coordinate_valid(p.longitude, parser.config.min_longitude, parser.config.max_longitude)
OutOfRange(p) == OutOfRangeLat(p) \/ OutOfRangeLon(p)

\* a parsed track with a repeated point, whose step adds nothing, and a point
\* out of range, whose step adds the fallback distance
C8_Witness ==
    /\ Parsed
    /\ \E k \in 2..Len(track_points) :
           /\ track_points[k] = track_points[k - 1]
           /\ ~OutOfRange(track_points[k])
           /\ profile.elevation_profile[k].distance_miles =
                  profile.elevation_profile[k - 1].distance_miles
    /\ \E k \in 2..Len(track_points) :
           /\ OutOfRange(track_points[k])
           /\ RGt(profile.elevation_profile[k].distance_miles,
                  profile.elevation_profile[k - 1].distance_miles)

\* C9: the data quality score of a parsed profile is at least 0 and at most 100.
C9_QualityScoreBounds ==
    Parsed =>
        /\ RGe(profile.gps_metadata.data_quality_score, Zero)
        /\ RLe(profile.gps_metadata.data_quality_score, R(100, 1))

\* every point lacks elevation and fails two validations: the score is 10
C9_Witness ==
    /\ Parsed
    /\ Len(track_points) >= 2
    /\ \A k \in 1..Len(track_points) : track_points[k].elevation = None
    /\ profile.gps_metadata.invalid_latitude_points = Len(track_points)
    /\ profile.gps_metadata.invalid_longitude_points = Len(track_points)
    /\ profile.gps_metadata.data_quality_score = R(10, 1)

\* C10: parsing a non-empty track never raises, whatever its coordinates;
\* the profile has one point per track point; a step with an endpoint out of
\* range adds exactly 0.001 mi; and the counters count the points out of range.
C10_AnomalyNeverAborts ==
    (result # None /\ track_points # <<>>) =>
        /\ result[1].raised = None
        /\ Len(profile.elevation_profile) = Len(track_points)
        /\ \A k \in 2..Len(track_points) :
              (OutOfRange(track_points[k - 1]) \/ OutOfRange(track_points[k])) =>
                  RSub(profile.elevation_profile[k].distance_miles,
                       profile.elevation_profile[k - 1].distance_miles) = R(1, 1000)
        /\ profile.gps_metadata.invalid_latitude_points >=
              Cardinality({k \in 1..Len(track_points) : OutOfRangeLat(track_points[k])})
        /\ profile.gps_metadata.invalid_longitude_points >=
              Cardinality({k \in 1..Len(track_points) : OutOfRangeLon(track_points[k])})
        /\ ((\E k \in 1..Len(track_points) : OutOfRange(track_points[k])) =>
              profile.gps_metadata.total_validation_errors > 0)

\* a parsed track with a latitude out of range, then a good point, then a
\* longitude out of range: two fallback steps, both points counted
C10_Witness ==
    /\ Parsed
    /\ Len(track_points) >= 3
    /\ OutOfRangeLat(track_points[1])
    /\ ~OutOfRange(track_points[2])
    /\ OutOfRangeLon(track_points[3]) /\ ~OutOfRangeLat(track_points[3])
    /\ profile.elevation_profile[3].distance_miles = R(2, 1000)
    /\ profile.gps_metadata.invalid_latitude_points = 1
    /\ profile.gps_metadata.invalid_longitude_points = 1

\* ------------------------------------------------------------ claims on the climb detector
\* grades of the points of gps_points[lo..hi] that carry a grade
RECURSIVE GradesIn(_, _, _)
GradesIn(pts, lo, hi) ==
    IF lo > hi THEN <<>>
    ELSE IF pts[lo].gradient_percent = None THEN GradesIn(pts, lo + 1, hi)
    ELSE <<pts[lo].gradient_percent[1]>> \o GradesIn(pts, lo + 1, hi)

\* C4: every emitted ClimbSegment has length_miles >= min_climb_distance, and
\* a candidate that closes below min_climb_distance is dropped: the step that
\* closes it emits nothing and leaves the detector in state NONE.
C4_MinClimbLength ==
    /\ [](\A c \in 1..Len(climbs) :
            RGe(climbs[c].length_miles, parser.min_climb_distance))
    /\ [][(/\ i <= Len(gps_points)
           /\ current_climb # None
           /\ gps_points[i].gradient_percent # None
           /\ RLt(gps_points[i].gradient_percent[1], Zero)
           /\ RLt(RSub(gps_points[i].distance_miles, current_climb[1].start_mile),
                  parser.min_climb_distance))
          => (current_climb' = None /\ climbs' = climbs)]_vars

\* an emitted climb whose length is exactly min_climb_distance, next to a
\* run where a shorter candidate was closed and dropped
C4_Witness ==
    /\ i > Len(gps_points)
    /\ Len(climbs) = 1
    /\ climbs[1].length_miles = parser.min_climb_distance
    /\ climbs[1].start_idx > 2
    /\ gps_points[1].gradient_percent # None
    /\ RGe(gps_points[1].gradient_percent[1], parser.min_climb_grade)

C6_AvgGradeAtLeastMin ==
    \A c \in 1..Len(climbs) : RGe(climbs[c].avg_grade, parser.min_climb_grade)

\* C7 (as claimed): when the last point of the track is processed while the
\* detector is IN_CLIMB and the candidate is at least min_climb_distance long,
\* that step emits the candidate as a ClimbSegment.
C7_EmitsAtEndOfTrack ==
    [][(/\ i = Len(gps_points)
        /\ current_climb # None
        /\ RGe(RSub(gps_points[i].distance_miles, current_climb[1].start_mile),
               parser.min_climb_distance))
       => (/\ Len(climbs') = Len(climbs) + 1
           /\ climbs'[Len(climbs')].start_idx = current_climb[1].start_idx)]_vars

\* the two kinds of failure, told apart by the text the ValueError carries
EmptyTrackError(e) ==
    e.type = "ValueError" /\ e.message = "No track points found in GPX file"
ParseError(e) ==
    /\ e.type = "ValueError"
    /\ e.message \in {"Invalid GPX file format", "No tracks found in GPX file"}

Failed == result # None /\ result[1].raised # None /\ result[1].profile = None
Malformed == gpx[1].found /\ ~gpx[1].wellformed
Readable == gpx[1].found /\ gpx[1].wellformed
NoPoints == extend_tracks(<<>>, gpx[1].tracks) = <<>>
NoSegments == extend_segments(<<>>, gpx[1].tracks) = <<>>

\* C11 (as stated): a malformed file, or a readable one whose tracks hold no
\* segment at all, fails with the parse error; any other readable file without
\* points fails with the empty-track error; no profile is returned.
C11_Original ==
    result # None =>
        /\ Malformed => Failed /\ ParseError(result[1].raised[1])
        /\ Readable /\ NoSegments => Failed /\ ParseError(result[1].raised[1])
        /\ Readable /\ ~NoSegments /\ NoPoints =>
               Failed /\ EmptyTrackError(result[1].raised[1])

\* C11 (amended): a malformed file, or a readable one with zero tracks, fails
\* with the parse error; a readable file that has a track but no point (its
\* tracks have no segments, or only empty ones) fails with the empty-track
\* error; in each case no profile is returned.
C11_ErrorKinds ==
    result # None =>
        /\ Malformed => Failed /\ ParseError(result[1].raised[1])
        /\ Readable /\ gpx[1].tracks = <<>> =>
               Failed /\ ParseError(result[1].raised[1])
        /\ Readable /\ gpx[1].tracks # <<>> /\ NoPoints =>
               Failed /\ EmptyTrackError(result[1].raised[1])

\* a parsed file with a track that has no segment, next to the empty-track error
C11_Witness ==
    /\ result # None
    /\ Readable
    /\ gpx[1].tracks # <<>>
    /\ NoSegments
    /\ Failed
    /\ EmptyTrackError(result[1].raised[1])

\* ------------------------------------------------------------ claims on the validator
Validated == report # None /\ report[1].raised = None /\ report[1].report # None
quality_report == report[1].report[1]

\* what check k is owed in the report: one failed critical result when it
\* throws on the course, its own results otherwise
Owed(k) ==
    LET outcome == validation_check(k, course)
    IN IF outcome.raised # None
       THEN <<[passed |-> FALSE, severity |-> "critical"]>>
       ELSE IF outcome.is_list
       THEN AsList([j \in 1..Len(outcome.value) |->
                [passed |-> outcome.value[j].passed,
                 severity |-> outcome.value[j].severity]])
       ELSE <<[passed |-> outcome.value.passed, severity |-> outcome.value.severity]>>

\* C12: validate_course never raises; its results are, check after check in
\* the order of the eight checks, exactly one failed critical result for each
\* check that threw and the check's own results for each check that did not.
C12_ChecksIsolated ==
    report # None =>
        /\ Validated
        /\ AsList([j \in 1..Len(quality_report.validation_results) |->
               [passed |-> quality_report.validation_results[j].passed,
                severity |-> quality_report.validation_results[j].severity]])
           = Owed(1) \o Owed(2) \o Owed(3) \o Owed(4) \o Owed(5) \o Owed(6)
               \o Owed(7) \o Owed(8)

\* a report where one check threw and a later check passed
C12_Witness ==
    /\ Validated
    /\ validation_check(6, course).raised = Some("ZeroDivisionError")
    /\ \A k \in (1..8) \ {6} : validation_check(k, course).raised = None
    /\ quality_report.critical_failures = 3
    /\ quality_report.validation_results[quality_report.total_checks]
           = ValidationResult("Technical Sections", TRUE, "info")

\* 100 * passed_checks / total_checks - 20 * critical_failures - 5 * warnings
RawScore(r) ==
    RSub(R(100 * r.passed_checks, r.total_checks),
         RInt(20 * r.critical_failures + 5 * r.warnings))

\* C13: the overall_score of a returned report is
\* max(0, 100 * passed_checks / total_checks - 20 * critical_failures - 5 * warnings)
\* and lies in [0, 100].
C13_OverallScore ==
    Validated =>
        /\ quality_report.total_checks > 0
        /\ quality_report.overall_score =
              (IF RLt(RawScore(quality_report), Zero) THEN Zero
               ELSE RawScore(quality_report))
        /\ RLe(Zero, quality_report.overall_score)
        /\ RLe(quality_report.overall_score, RInt(100))

\* a report whose penalties exceed its base score, floored at 0, with a
\* warning among its failures
C13_Witness ==
    /\ Validated
    /\ RLt(RawScore(quality_report), Zero)
    /\ quality_report.overall_score = Zero
    /\ quality_report.warnings > 0
    /\ quality_report.passed_checks > 0

\* C14: is_valid_for_strategy is true exactly when critical_failures == 0 and
\* overall_score >= 75; a report with a critical failure is never valid.
C14_ValidForStrategy ==
    valid # None =>
        /\ valid[1] <=> (/\ quality_report.critical_failures = 0
                         /\ RGe(quality_report.overall_score, R(75, 1)))
        /\ quality_report.critical_failures >= 1 => ~valid[1]

\* a report scored 85 with one critical failure, read as not valid
C14_Witness ==
    /\ valid = Some(FALSE)
    /\ quality_report.critical_failures = 1
    /\ quality_report.overall_score = R(85, 1)

\* ------------------------------------------------------------ more claims on calculate_difficulty
\* C15: for a profile at altitude 100 ft and the same profile at 8000 ft,
\* calculate_difficulty returns for both and the overall_rating of the
\* 8000 ft profile is strictly greater.
C15_AltitudeRaisesRating ==
    (metrics # None /\ course.altitude_ft = 100) =>
        LET high == calculate_difficulty([course EXCEPT !.altitude_ft = 8000])
        IN /\ Returned
           /\ high.raised = None
           /\ RGt(high.metrics[1].overall_rating, metrics[1].metrics[1].overall_rating)

crux == metrics[1].metrics[1].crux_segments

\* entry j of the crux list describes climb k of the course
CruxOf(j, k) ==
    /\ crux[j].name = course.key_climbs[k].name
    /\ crux[j].start_mile = course.key_climbs[k].start_mile
    /\ crux[j].length_miles = course.key_climbs[k].length_miles
    /\ crux[j].avg_grade = course.key_climbs[k].avg_grade
    /\ crux[j].max_grade = course.key_climbs[k].max_grade
    /\ crux[j].elevation_gain_ft = course.key_climbs[k].elevation_gain_ft

\* C17: the crux list has min(3, number of climbs) entries, in non-increasing
\* order of difficulty_score; the entries are climbs of the course, taken at
\* increasing positions wherever their scores are equal; no climbs, no entries.
C17_CruxTopThree ==
    Returned =>
        /\ Len(crux) = (IF Len(course.key_climbs) < 3 THEN Len(course.key_climbs) ELSE 3)
        /\ \A j \in 1..(Len(crux) - 1) :
              RGe(crux[j].difficulty_score, crux[j + 1].difficulty_score)
        /\ \E f \in [1..Len(crux) -> 1..Len(course.key_climbs)] :
              /\ \A j \in 1..Len(crux) : CruxOf(j, f[j])
              /\ \A j, k \in 1..Len(crux) :
                    (j < k /\ crux[j].difficulty_score = crux[k].difficulty_score)
                        => f[j] < f[k]
        /\ course.key_climbs = <<>> => crux = <<>>

\* four climbs of which three are returned, two different ones tied first
C17_Witness ==
    /\ Returned
    /\ Len(course.key_climbs) = 4
    /\ Len(crux) = 3
    /\ crux[1].difficulty_score = crux[2].difficulty_score
    /\ crux[1].name # crux[2].name
    /\ RGt(crux[2].difficulty_score, crux[3].difficulty_score)
    /\ ~CruxOf(1, 1)

\* ------------------------------------------------------------ claims on distance jumps
\* C18: large_distance_jumps of a parsed profile is the number of consecutive
\* profile points whose distance difference is strictly greater than
\* max_distance_jump_miles.
C18_LargeDistanceJumps ==
    Parsed =>
        profile.gps_metadata.large_distance_jumps =
            Cardinality({k \in 2..Len(profile.elevation_profile) :
                RGt(RSub(profile.elevation_profile[k].distance_miles,
                         profile.elevation_profile[k - 1].distance_miles),
                    parser.config.max_distance_jump_miles)})

\* a step of exactly 1.0 mi followed by a step of 2.0 mi: one jump
C18_Witness ==
    /\ Parsed
    /\ Len(profile.elevation_profile) = 3
    /\ parser.config.max_distance_jump_miles = One
    /\ profile.elevation_profile[1].distance_miles = Zero
    /\ profile.elevation_profile[2].distance_miles = One
    /\ profile.elevation_profile[3].distance_miles = R(3, 1)
    /\ profile.gps_metadata.large_distance_jumps = 1

WellFormedClimbs ==
    /\ RGt(course.bike_distance_miles, Zero)
    /\ \A k \in 1..Len(course.key_climbs) :
          /\ RGe(course.key_climbs[k].length_miles, Zero)
          /\ RGe(course.key_climbs[k].start_mile, Zero)

\* C20: on such a profile climb_clustering_score and technical_difficulty are
\* in [0, 1]; clustering is 0 with fewer than two climbs, technical
\* difficulty is 0 when no climb and no technical section adds a factor.
C20_ScoresInUnitInterval ==
    (Returned /\ WellFormedClimbs) =>
        /\ RLe(Zero, metrics[1].metrics[1].climb_clustering_score)
        /\ RLe(metrics[1].metrics[1].climb_clustering_score, One)
        /\ RLe(Zero, metrics[1].metrics[1].technical_difficulty)
        /\ RLe(metrics[1].metrics[1].technical_difficulty, One)
        /\ Len(course.key_climbs) < 2 =>
               metrics[1].metrics[1].climb_clustering_score = Zero
        /\ (/\ \A k \in 1..Len(course.key_climbs) :
                   /\ ~RGt(course.key_climbs[k].max_grade, R(15, 1))
                   /\ ~RGt(course.key_climbs[k].avg_grade, R(10, 1))
            /\ all_section_factors(course.technical_sections) = <<>>)
               => metrics[1].metrics[1].technical_difficulty = Zero

\* three climbs or more at uneven gaps, with both scores strictly inside (0, 1)
C20_Witness ==
    /\ Returned
    /\ WellFormedClimbs
    /\ Len(course.key_climbs) >= 3
    /\ RLt(Zero, metrics[1].metrics[1].climb_clustering_score)
    /\ RLt(metrics[1].metrics[1].climb_clustering_score, One)
    /\ RLt(Zero, metrics[1].metrics[1].technical_difficulty)
    /\ RLt(metrics[1].metrics[1].technical_difficulty, One)
    /\ course.technical_sections # <<>>

\* ------------------------------------------------------------ C21
\* the strategy generate_strategy returned for course
Generated == strategy # None /\ strategy[1].raised = None
segment_analyses == strategy[1].segment_analyses

\* C21: for a course with at least 5 climbs, generate_strategy runs the
\* segment analysis on 5 climbs, and they are the 5 highest-scoring ones: the
\* analysed segments are in non-increasing score order and are the first five
\* of the course's climbs sorted by score.
C21_TopFiveSegments ==
    (Generated /\ Len(course.key_climbs) >= 5) =>
        /\ Len(segment_analyses) = 5
        /\ \A k \in 1..(Len(segment_analyses) - 1) :
              RGe(segment_analyses[k].difficulty_score, segment_analyses[k + 1].difficulty_score)
        /\ segment_analyses = _identify_crux_segments(course, 5)

\* ------------------------------------------------------------ C22
\* the factors the statement gives one descriptor: the normalized grade for
\* a parseable grade above 8%, the fixed 0.5 for a keyword when no grade is
\* parseable, and nothing else
StatedSectionFactors(section) ==
    IF gradient_match(section) # None
    THEN IF RGt(RAbs(gradient_match(section)[1]), R(8, 1))
         THEN <<RMin(One, RDiv(RAbs(gradient_match(section)[1]), R(20, 1)))>>
         ELSE <<>>
    ELSE IF \E kw \in technical_keywords : contains_word(section, kw)
         THEN <<R(1, 2)>>
         ELSE <<>>

RECURSIVE StatedFactors(_)
StatedFactors(technical_sections) ==
    IF technical_sections = <<>> THEN <<>>
    ELSE StatedSectionFactors(technical_sections[1]) \o StatedFactors(Tail(technical_sections))

\* C22: the technical-difficulty score calculate_difficulty returns is the
\* mean of the climb factors and, per descriptor, of the normalized grade
\* factor alone when a grade above 8% is parseable, and of the fixed 0.5 only
\* when the descriptor has a keyword and no parseable grade.
C22_KeywordOnlyWithoutGrade ==
    Returned =>
        metrics[1].metrics[1].technical_difficulty =
            (IF all_climb_factors(course.key_climbs) \o StatedFactors(course.technical_sections) = <<>>
             THEN Zero
             ELSE mean(all_climb_factors(course.key_climbs) \o StatedFactors(course.technical_sections)))

\* ------------------------------------------------------------ C23
\* the distance from point k - 1 to point k
DistanceDiff(pts, k) == RSub(pts[k].distance_miles, pts[k - 1].distance_miles)

\* C23: a gradient pass over a list of points without grades leaves the list
\* with the same number of points, sets the grade of point k exactly when k
\* has a predecessor and lies at a distance > 0 from it (the first point and
\* the points with distance_diff = 0 stay without grade), and changes no
\* latitude, longitude, distance or stored elevation.
C23_GradientPass ==
    [][/\ Len(gps_points') = Len(gps_points)
       /\ \A k \in 1..Len(gps_points) :
             /\ gps_points'[k].latitude = gps_points[k].latitude
             /\ gps_points'[k].longitude = gps_points[k].longitude
             /\ gps_points'[k].distance_miles = gps_points[k].distance_miles
             /\ gps_points'[k].elevation_ft = gps_points[k].elevation_ft
             /\ (gps_points'[k].gradient_percent # None) <=>
                    (k > 1 /\ RGt(DistanceDiff(gps_points, k), Zero))]_vars

\* a pass that smoothed the elevations has run on a list with a repeated
\* position: the point at distance_diff = 0 has no grade, a later one has,
\* and the grade comes from smoothed elevations (two points 60 ft apart over
\* 0.25 mi would give 60 / 1320 * 100 unsmoothed)
C23_Witness ==
    /\ i = Len(gps_points) + 1
    /\ Len(gps_points) >= 3
    /\ \E k \in 2..Len(gps_points) :
          /\ DistanceDiff(gps_points, k) = Zero
          /\ gps_points[k].gradient_percent = None
    /\ \E k \in 2..Len(gps_points) :
          /\ DistanceDiff(gps_points, k) = R(1, 4)
          /\ gps_points[k].gradient_percent # None
          /\ RAbs(RSub(gps_points[k].elevation_ft, gps_points[k - 1].elevation_ft)) = R(60, 1)
          /\ RAbs(gps_points[k].gradient_percent[1]) # R(6000, 1320)

\* ------------------------------------------------------------ C24
\* the descent threshold of a call
ThresholdOf(activity_config) ==
    IF activity_config # None THEN activity_config[1].technical_descent_threshold
    ELSE parser.config.descent_threshold

\* one descriptor per maximal run, scanning from point k: a run starts at the
\* first point with grade <= threshold, reaches as far as the grades stay <=
\* descent_continuation_threshold, is described if it is long enough, and
\* the scan goes on after the run
RECURSIVE StatedSections(_, _, _)
StatedSections(pts, k, threshold) ==
    IF k > Len(pts) THEN <<>>
    ELSE IF Truthy(pts[k].gradient_percent) /\ RLe(pts[k].gradient_percent[1], threshold)
    THEN (IF RGe(RSub(pts[descent_end(pts, k + 1, parser) - 1].distance_miles, pts[k].distance_miles),
                 parser.config.min_descent_length)
          THEN <<descent_text(pts[k].distance_miles,
                              RSub(pts[descent_end(pts, k + 1, parser) - 1].distance_miles, pts[k].distance_miles),
                              pts[k].gradient_percent[1])>>
          ELSE <<>>)
         \o StatedSections(pts, descent_end(pts, k + 1, parser), threshold)
    ELSE StatedSections(pts, k + 1, threshold)

\* C24: the detector returns exactly one descriptor for each maximal run of
\* points that starts at a grade <= descent_threshold, continues while the
\* grade stays <= descent_continuation_threshold and is at least
\* min_descent_length long, in track order, and nothing else: no point of
\* the track is covered by two descriptors.
C24_OneDescriptorPerRun ==
    detected_sections # None =>
        detected_sections[1].technical_sections =
            StatedSections(gps_points, 1, ThresholdOf(detected_sections[1].activity_config))

\* ------------------------------------------------------------ C25
\* the points for which the detector appended a descriptor
DescribedPoints ==
    {k \in 1..Len(gps_points) :
        technical_section_at(gps_points, k, ThresholdOf(detected_sections[1].activity_config), parser) # <<>>}

\* the descriptor the detector appended for point k
DescriptorOf(k) ==
    detected_sections[1].technical_sections[Cardinality({j \in DescribedPoints : j <= k})]

\* C25: in every descriptor the detector returns, the calculator's gradient
\* pattern finds a number within 0.05 of the magnitude of the grade of the
\* point that starts the descent, and the calculator's mile pattern finds a
\* number within 0.05 of that point's distance.
C25_DescriptorRoundTrip ==
    detected_sections # None =>
        /\ Len(detected_sections[1].technical_sections) = Cardinality(DescribedPoints)
        /\ \A k \in DescribedPoints :
              /\ gradient_match(DescriptorOf(k)) # None
              /\ RLe(RAbs(RSub(gradient_match(DescriptorOf(k))[1],
                               RAbs(gps_points[k].gradient_percent[1]))), R(1, 20))
              /\ mile_match(DescriptorOf(k)) # None
              /\ RLe(RAbs(RSub(mile_match(DescriptorOf(k))[1],
                               gps_points[k].distance_miles)), R(1, 20))

\* a descriptor was written for a descent that starts at mile 0.25 with a
\* grade of -8.25%: the patterns read 8.2 and 0.2 back from "0.2" and "-8.2%"
C25_Witness ==
    /\ detected_sections # None
    /\ \E k \in DescribedPoints :
          /\ gps_points[k].gradient_percent = Some(R(-33, 4))
          /\ gps_points[k].distance_miles = R(1, 4)
          /\ gradient_match(DescriptorOf(k)) = Some(R(82, 10))
          /\ mile_match(DescriptorOf(k)) = Some(R(2, 10))

\* ------------------------------------------------------------ C26
\* compare_courses(course, course2) has returned a comparison
Compared == comparison # None /\ comparison[1].raised = None

\* the overall rating calculate_difficulty gives a profile
RatingOf(c) == calculate_difficulty(c).metrics[1].overall_rating

\* C26: the comparison compare_courses returns has difficulty_difference =
\* overall_rating(course1) - overall_rating(course2), and harder_course
\* names course1 when its rating is the higher one and course2 when the
\* rating of course2 is the higher one.
C26_DifferenceAndHarderCourse ==
    Compared =>
        /\ comparison[1].comparison[1].difficulty_difference = RSub(RatingOf(course), RatingOf(course2[1]))
        /\ RGt(RatingOf(course), RatingOf(course2[1])) => comparison[1].comparison[1].harder_course = 1
        /\ RLt(RatingOf(course), RatingOf(course2[1])) => comparison[1].comparison[1].harder_course = 2

\* an easier course was compared with a harder one: the difference is
\* negative and the label names the second course
C26_Witness ==
    /\ Compared
    /\ RLt(RatingOf(course), RatingOf(course2[1]))
    /\ RLt(comparison[1].comparison[1].difficulty_difference, Zero)
    /\ comparison[1].comparison[1].harder_course = 2

\* ------------------------------------------------------------ C27
\* the score the statement gives the metadata of the parsed profile, from the
\* counts the metadata reports and the penalties the parser was configured with
StatedQualityScore ==
    RMax(Zero,
         RSub(RSub(R(100, 1),
                   RMul(R(profile.gps_metadata.missing_elevation_points, profile.gps_metadata.total_points),
                        parser.config.quality_penalty_factor)),
              RMul(R(profile.gps_metadata.total_validation_errors, profile.gps_metadata.total_points),
                   parser.config.coordinate_validation_penalty)))

\* C27: the data quality score of a parsed profile is max(0, 100 -
\* (missing_elevation_points / total_points) * quality_penalty_factor -
\* (total_validation_errors / total_points) * coordinate_validation_penalty);
\* it is exactly 100 when no elevation is missing and no validation failed,
\* and 87.5 when half the elevations are missing, nothing else failed and the
\* penalty factor is 25.
C27_QualityScoreFormula ==
    Parsed =>
        /\ profile.gps_metadata.total_points = Len(track_points)
        /\ profile.gps_metadata.missing_elevation_points =
               Cardinality({k \in 1..Len(track_points) : track_points[k].elevation = None})
        /\ profile.gps_metadata.data_quality_score = StatedQualityScore
        /\ (/\ profile.gps_metadata.missing_elevation_points = 0
            /\ profile.gps_metadata.total_validation_errors = 0)
               => profile.gps_metadata.data_quality_score = R(100, 1)
        /\ (/\ 2 * profile.gps_metadata.missing_elevation_points = profile.gps_metadata.total_points
            /\ profile.gps_metadata.total_validation_errors = 0
            /\ parser.config.quality_penalty_factor = R(25, 1))
               => profile.gps_metadata.data_quality_score = R(175, 2)

\* a parser configured with penalty factor 25 parsed two points, the second
\* without elevation, and no validation failed: the score is 87.5
C27_Witness ==
    /\ Parsed
    /\ parser.config.quality_penalty_factor = R(25, 1)
    /\ Len(track_points) = 2
    /\ track_points[1].elevation # None
    /\ track_points[2].elevation = None
    /\ profile.gps_metadata.total_validation_errors = 0
    /\ profile.gps_metadata.data_quality_score = R(175, 2)

\* ------------------------------------------------------------ C28
\* C28: in the report validate_course returns, total_checks is the number
\* of validation results, every result that did not pass is critical or a
\* warning, and passed_checks + critical_failures + warnings = total_checks.
C28_CountsAddUp ==
    Validated =>
        /\ quality_report.total_checks = Len(quality_report.validation_results)
        /\ \A k \in 1..Len(quality_report.validation_results) :
              ~quality_report.validation_results[k].passed =>
                  quality_report.validation_results[k].severity \in {"critical", "warning"}
        /\ quality_report.passed_checks + quality_report.critical_failures + quality_report.warnings
               = quality_report.total_checks

\* a report with passed results, critical failures and warnings, one of the
\* critical failures being a check that threw
C28_Witness ==
    /\ Validated
    /\ quality_report.passed_checks > 0
    /\ quality_report.critical_failures > 1
    /\ quality_report.warnings > 0
    /\ \E k \in 1..Len(quality_report.validation_results) :
          quality_report.validation_results[k].check_name \in
              {validation_check_names[j] : j \in 1..Len(validation_check_names)}

\* ------------------------------------------------------------ C29
\* C29: along the list of climbs the detector has emitted, start_mile never
\* decreases, every climb starts at or before the point that closed it, and
\* every climb starts at a point after the one that closed the climb before
\* it: no point belongs to two climbs.
C29_ClimbsInOrder ==
    /\ \A m \in 1..Len(climbs) : climbs[m].start_idx <= climbs[m].end_idx
    /\ \A m \in 1..(Len(climbs) - 1) :
          /\ RLe(climbs[m].start_mile, climbs[m + 1].start_mile)
          /\ climbs[m + 1].start_idx > climbs[m].end_idx

\* the scan is over and has emitted two climbs, the second one starting
\* right after the point that closed the first
C29_Witness ==
    /\ i > Len(gps_points)
    /\ Len(climbs) = 2
    /\ climbs[2].start_idx = climbs[1].end_idx + 1
    /\ RLt(climbs[1].start_mile, climbs[2].start_mile)

\* ------------------------------------------------------------ C30
\* C30: calculate_difficulty, called on a profile parse_gpx_file returned,
\* raises nothing and returns metrics, also when the profile has bike
\* distance 0 and one or more climbs.
C30_CalculatesEveryParsedProfile ==
    (Parsed /\ metrics # None) =>
        /\ metrics[1].raised = None
        /\ metrics[1].metrics # None

====
